---- MODULE Spec2Model ----
(***************************************************************************)
(* gohttpclient: the interceptor chain (request_handler.go), the retry     *)
(* interceptor (retry.go), the cache interceptor and its codec (cache.go), *)
(* the storage backends (cacher.go), the logger interceptor (logger.go)    *)
(* and the client that assembles them (client.go).                         *)
(*                                                                         *)
(* Every call through a composed handler is a stack of interceptor frames. *)
(* The terminal handlerFunc (the transport's Do) is an input: its result   *)
(* is drawn from Outcomes each time it is invoked.  trace[c] records, in   *)
(* order, what call c did: <<"in", h>> and <<"out", h>> when interceptor   *)
(* number h (0: the terminal call) is entered and returns, and the retry   *)
(* and cache events listed with the actions that append them.              *)
(***************************************************************************)
EXTENDS Integers, Sequences, FiniteSets, TLC

\* ----------------------------------------------------------------- bounds
MaxN == 3          \* longest list of interceptors given to the composer
MaxRetryBound == 2 \* largest RetryOption.MaxRetry
MaxClock == 3      \* the clock stops ticking here
MaxRequests == 3   \* requests one caller sends through the cache, one after another
MaxLookups == 2    \* requests each of two concurrent callers sends through the cache
MaxOps == 3        \* Set and Get operations one caller performs on a storage backend
MaxTakes == 2      \* requests one caller sends through the rate limiter, one after another

Calls == {1, 2}    \* concurrent calls through one composed handler

VARIABLES
    config,     \* how the list was made (by NewClient from options o, or handed
                \* over), the outcomes the terminal call has in this run, and the
                \* cache option's Cacher and the ttl its CacheTTLFunc returns
    handlers,   \* the interceptor kinds given to ChainRequestHandlers, in order
    option,     \* RetryOption: MaxRetry, ShouldRetryFunc; RetryBackOff is heap[1]
    heap,       \* backoff policy objects: heap[1] the configured one, then clones
    stack,      \* stack[c]: the frames of call c, innermost last
    closures,   \* closures[c]: the currHandlerFunc closures the composer built
    trace,      \* trace[c]: what call c did, in order
    ret,        \* ret[c]: the (resp, err) last returned inside call c
    got,        \* got[c]: what the terminal call returned to call c, in order
    cpc,        \* cpc[c]: "unused", "ready", "running", "done", "panic"
    req,        \* req[c]: the request of call c
    cancelled,  \* cancelled[c]: the request's context is done
    faults,     \* the I/O failures the environment may still inject
    store,      \* the cache storage: key -> entry or NoItem
    now         \* the clock the storage reads

vars == <<config, handlers, option, heap, stack, closures, trace, ret, got, cpc, req,
          cancelled, faults, store, now>>

\* ------------------------------------------------------------ errors
\* An error is the sequence of its layers, outermost first: message layers
\* put on by errors.Wrap/Wrapf and, last, the error value itself.  The nil
\* error is the empty sequence.
NilErr == <<>>

ErrValue(v) == << [k |-> "err", v |-> <<v>>] >>

\* err.Error(): the texts of the layers, outermost first; "%v" of a nil error
\* prints <nil>
ErrText(e) ==
    IF e = NilErr THEN << "<nil>" >>
    ELSE LET RECURSIVE txt(_)
             txt(i) == IF i > Len(e) THEN <<>> ELSE e[i].v \o txt(i + 1)
         IN txt(1)

\* errors.Wrap / errors.Wrapf of github.com/pkg/errors: nil stays nil
Wrap(e, msg) == IF e = NilErr THEN NilErr ELSE << [k |-> "msg", v |-> msg] >> \o e

\* errors.Is(e, target) for a target that is a plain error value
ErrorsIs(e, v) == \E i \in 1..Len(e) : e[i] = [k |-> "err", v |-> <<v>>]

ContextCanceled == "context canceled"
DownstreamError == "downstream failed"

\* ------------------------------------------------------------ headers
\* An http.Header: a function from the names it holds (in canonical form) to
\* the values of each name, in order.
NoHeader == <<>>

\* header.Get(key) (cache.go:263): the first value of the name, "" without one
HeaderGet(header, key) ==
    IF key \in DOMAIN header /\ Len(header[key]) > 0 THEN header[key][1] ELSE ""

\* the last value of the name
HeaderGetLast(header, key) ==
    IF key \in DOMAIN header /\ Len(header[key]) > 0
    THEN header[key][Len(header[key])] ELSE ""

\* a map of the last value of each name
httpHeaderToMapLast(header) == [key \in DOMAIN header |-> HeaderGetLast(header, key)]

\* httpHeaderToMap (cache.go:260-267)
httpHeaderToMap(header) == [key \in DOMAIN header |-> HeaderGet(header, key)]

\* mapToHTTPHeader (cache.go:269-275): header.Set(key, value) for each pair
mapToHTTPHeader(m) == [key \in DOMAIN m |-> <<m[key]>>]

\* ------------------------------------------------------------ responses
\* A response: obj names the object (0: made by Decode), body the bytes its
\* Body stream still yields (0: none).
NilResp ==
    [nil |-> TRUE, code |-> 0, status |-> "", proto |-> "", header |-> NoHeader,
     body |-> 0, obj |-> 0]

Response(code, body, obj) ==
    [nil |-> FALSE, code |-> code, status |-> "status", proto |-> "HTTP/1.1",
     header |-> NoHeader, body |-> body, obj |-> obj]

\* io.ReadAll(resp.Body) has read the stream to its end, or up to a failure
Drained(resp) == [resp EXCEPT !.body = 0]

\* a copyHTTPResponseBody that does not put a stream back
copyHTTPResponseBodyDrains(resp) == [body |-> resp.body, resp |-> Drained(resp)]

\* copyHTTPResponseBody (logger.go:154-161) when the read succeeds: the
\* bytes read, and the response with a new stream over them as its Body
copyHTTPResponseBody(resp) ==
    LET body == resp.body
    IN [body |-> body, resp |-> [Drained(resp) EXCEPT !.body = body]]

\* What the terminal handlerFunc may return: a response without error (200,
\* 404, 500), an error without response, or both (http.Client.Do when
\* CheckRedirect fails).
OutcomeKinds == {"ok200", "ok404", "ok500", "fail", "both"}

\* the Content-Length header of the responses that declare one: a size, a
\* text that is no number, and a number beyond 64 bits
ContentLengths ==
    [len0 |-> "0", len1 |-> "1", len2 |-> "2", len3 |-> "3", lenText |-> "abc",
     lenWide |-> "18446744073709551616"]

Outcome(kind, n) ==
    CASE kind = "ok200" -> [resp |-> Response(200, n, n), err |-> NilErr]
      [] kind = "ok404" -> [resp |-> Response(404, n, n), err |-> NilErr]
      [] kind = "ok500" -> [resp |-> Response(500, n, n), err |-> NilErr]
      [] kind = "fail"  -> [resp |-> NilResp, err |-> ErrValue(DownstreamError)]
      [] kind = "both"  -> [resp |-> Response(302, n, n), err |-> ErrValue(DownstreamError)]
      [] kind \in DOMAIN ContentLengths ->
            [resp |-> [Response(200, n, n) EXCEPT
                          !.header = [key \in {"Content-Length"} |-> <<ContentLengths[kind]>>]],
             err |-> NilErr]

NoResult == [resp |-> NilResp, err |-> NilErr]

\* ------------------------------------------------------------ the trace
Count(s, e) == Cardinality({i \in 1..Len(s) : s[i] = e})

CountTag(s, tag) == Cardinality({i \in 1..Len(s) : s[i][1] = tag})

Positions(s, e) == {i \in 1..Len(s) : s[i] = e}

\* the events of s with tag tag, in order
RECURSIVE Filter(_, _)
Filter(s, tag) ==
    IF s = <<>> THEN <<>>
    ELSE IF Head(s)[1] = tag THEN <<Head(s)>> \o Filter(Tail(s), tag)
    ELSE Filter(Tail(s), tag)

\* ------------------------------------------------------------ the composer
\* request_handler.go:42-48, the loop `for i := n - 1; i > 0; i--`: each turn
\* makes a closure that calls handlers[i] with the closure made before it
\* (the terminal handlerFunc, 0, at first).  Handlers are numbered from 1
\* here, so the loop runs from n down to 2.
RECURSIVE ChainLoop(_, _, _)
\* the loop without `innerHandlerFunc, i := currHandlerFunc, i`: the closures
\* share the loop variable, which is 0 when they run
ChainLoopSharedIndex(i, currHandlerFunc, made) ==
    IF i > 1
    THEN ChainLoop(i - 1, Len(made) + 1,
                   Append(made, [h |-> 1, inner |-> currHandlerFunc]))
    ELSE [curr |-> currHandlerFunc, made |-> made]

ChainLoop(i, currHandlerFunc, made) ==
    IF i > 1
    THEN ChainLoop(i - 1, Len(made) + 1,
                   Append(made, [h |-> i, inner |-> currHandlerFunc]))
    ELSE [curr |-> currHandlerFunc, made |-> made]

\* ChainRequestHandlers(handlers...): what the composed handler is
ChainRequestHandlers(hs) ==
    IF Len(hs) = 0 THEN "noOpRequestHandler"
    ELSE IF Len(hs) = 1 THEN "handlers[0]"
    ELSE "chain"

\* ------------------------------------------------------------ frames
NewFrame(h, next) ==
    [h |-> h, kind |-> IF h = 0 THEN "noop" ELSE handlers[h], next |-> next,
     pc |-> "pre", resp |-> NilResp, err |-> NilErr,
     b |-> 0, tries |-> 0, d |-> 0, hash |-> 0]

Top(c) == stack[c][Len(stack[c])]

ReplaceTop(s, f) == [s EXCEPT ![Len(s)] = f]

Pop(s) == SubSeq(s, 1, Len(s) - 1)

OnTop(c, kind, pc) ==
    /\ cpc[c] = "running"
    /\ stack[c] # <<>>
    /\ Top(c).kind = kind
    /\ Top(c).pc = pc

\* the number of terminal invocations of call c so far
DownCount(c) == Len(got[c])

\* all terminal invocations so far: names the next response object
AllDown == LET RECURSIVE sum(_)
               sum(S) == IF S = {} THEN 0
                         ELSE LET c == CHOOSE x \in S : TRUE
                              IN DownCount(c) + sum(S \ {c})
           IN sum(Calls)

\* The frame on top, now f, calls its handlerFunc(req) after doing evs:
\* the terminal call returns kind's outcome at once, a closure enters the
\* interceptor it was made for (request_handler.go:44-46).
CallNext(c, f, evs, kind) ==
    IF f.next = 0
    THEN /\ stack' = [stack EXCEPT ![c] = ReplaceTop(@, f)]
         /\ trace' = [trace EXCEPT ![c] = @ \o evs \o << <<"in", 0>>, <<"out", 0>> >>]
         /\ ret' = [ret EXCEPT ![c] = Outcome(kind, AllDown + 1)]
         /\ got' = [got EXCEPT ![c] = Append(@, Outcome(kind, AllDown + 1))]
         /\ cpc' = cpc
    ELSE /\ stack' = [stack EXCEPT ![c] =
                        Append(ReplaceTop(@, f),
                               NewFrame(closures[c][f.next].h, closures[c][f.next].inner))]
         /\ trace' = [trace EXCEPT ![c] = @ \o evs]
         /\ ret' = ret
         /\ got' = got
         /\ cpc' = cpc

\* a closure that calls its interceptor and drops what it returns
ReturnDropsResult(c, evs, r) ==
    /\ stack' = [stack EXCEPT ![c] = Pop(@)]
    /\ trace' = [trace EXCEPT ![c] = @ \o evs]
    /\ ret' = [ret EXCEPT ![c] = NoResult]
    /\ got' = got
    /\ cpc' = [cpc EXCEPT ![c] = IF Len(stack[c]) = 1 THEN "done" ELSE @]

\* The frame on top returns r after doing evs.
Return(c, evs, r) ==
    /\ stack' = [stack EXCEPT ![c] = Pop(@)]
    /\ trace' = [trace EXCEPT ![c] = @ \o evs]
    /\ ret' = [ret EXCEPT ![c] = r]
    /\ got' = got
    /\ cpc' = [cpc EXCEPT ![c] = IF Len(stack[c]) = 1 THEN "done" ELSE @]

\* ------------------------------------------------------------ a call
\* handler(req, handlerFunc) on the composed handler (requestForDoer):
\* noOpRequestHandler, the only interceptor, or the composite closure of
\* request_handler.go:40-50, which builds the closures and calls handlers[0].
Start(c) ==
    /\ cpc[c] = "ready"
    /\ LET what == ChainRequestHandlers(handlers)
           built == ChainLoop(Len(handlers), 0, <<>>)
       IN /\ closures' = [closures EXCEPT ![c] =
                            IF what = "chain" THEN built.made ELSE <<>>]
          /\ stack' = [stack EXCEPT ![c] =
                         << CASE what = "noOpRequestHandler" -> NewFrame(0, 0)
                              [] what = "handlers[0]" -> NewFrame(1, 0)
                              [] OTHER -> NewFrame(1, built.curr) >>]
    /\ cpc' = [cpc EXCEPT ![c] = "running"]
    /\ UNCHANGED <<config, handlers, option, heap, trace, ret, got, req, cancelled, faults, store, now>>

\* a no-op interceptor that answers as noOpRequestHandlerFunc does, without
\* calling handlerFunc
NoOpCallSkipsTerminal(c) ==
    /\ OnTop(c, "noop", "pre")
    /\ stack' = [stack EXCEPT ![c] = ReplaceTop(@, [Top(c) EXCEPT !.pc = "post"])]
    /\ ret' = [ret EXCEPT ![c] = [resp |-> Response(0, 0, 0), err |-> NilErr]]
    /\ UNCHANGED <<config, handlers, option, heap, closures, trace, got, cpc, req,
                   cancelled, faults, store, now>>

\* noOpRequestHandler (request_handler.go:14-16): return handlerFunc(req)
NoOpCall(c) ==
    /\ OnTop(c, "noop", "pre")
    /\ \E kind \in config.outcomes :
          CallNext(c, [Top(c) EXCEPT !.pc = "post"], <<>>, kind)
    /\ UNCHANGED <<config, handlers, option, heap, closures, req, cancelled, faults, store, now>>

NoOpReturn(c) ==
    /\ OnTop(c, "noop", "post")
    /\ Return(c, <<>>, ret[c])
    /\ UNCHANGED <<config, handlers, option, heap, closures, req, cancelled, faults, store, now>>

\* An interceptor that calls its handlerFunc once and returns what it gets
\* (handler1..3 of TestChainRequestHandlers).
PassCall(c) ==
    /\ OnTop(c, "pass", "pre")
    /\ \E kind \in config.outcomes :
          CallNext(c, [Top(c) EXCEPT !.pc = "post"], << <<"in", Top(c).h>> >>, kind)
    /\ UNCHANGED <<config, handlers, option, heap, closures, req, cancelled, faults, store, now>>

PassReturn(c) ==
    /\ OnTop(c, "pass", "post")
    /\ Return(c, << <<"out", Top(c).h>> >>, ret[c])
    /\ UNCHANGED <<config, handlers, option, heap, closures, req, cancelled, faults, store, now>>

\* An interceptor that returns without calling its handlerFunc: its result
\* is a response of its own, of status 200 + h.
ShortResult(h) == [resp |-> Response(200 + h, 0, 0), err |-> NilErr]

ShortReturn(c) ==
    /\ OnTop(c, "short", "pre")
    /\ Return(c, << <<"in", Top(c).h>>, <<"out", Top(c).h>> >>, ShortResult(Top(c).h))
    /\ UNCHANGED <<config, handlers, option, heap, closures, req, cancelled, faults, store, now>>

\* ------------------------------------------------------------ backoff
\* github.com/cenkalti/backoff/v4 as retry.go uses it.  A policy object is
\* kind (the concrete type) with Interval (ConstantBackOff), and for
\* ExponentialBackOff currentInterval cur, InitialInterval init, MaxInterval
\* maxi (Multiplier 2, RandomizationFactor 0 as in TestNewFromBackOff) and
\* limit: MaxElapsedTime is set, so NextBackOff may answer Stop.
Stop == -1

BackOffKinds == {"exponential", "constant", "stop", "zero"}

ExponentialBackOff(cur, limit) ==
    [kind |-> "exponential", interval |-> 0, cur |-> cur, init |-> 1, maxi |-> 4,
     limit |-> limit]

ConstantBackOff(d) ==
    [kind |-> "constant", interval |-> d, cur |-> 0, init |-> 0, maxi |-> 0, limit |-> FALSE]

StopBackOff ==
    [kind |-> "stop", interval |-> 0, cur |-> 0, init |-> 0, maxi |-> 0, limit |-> FALSE]

ZeroBackOff ==
    [kind |-> "zero", interval |-> 0, cur |-> 0, init |-> 0, maxi |-> 0, limit |-> FALSE]

\* a BackOff of a type newFromBackOff does not know (testBackOff)
OtherBackOff ==
    [kind |-> "other", interval |-> 0, cur |-> 0, init |-> 0, maxi |-> 0, limit |-> FALSE]

\* the nil RetryBackOff of a RetryOption that was given none
NilBackOff ==
    [kind |-> "nil", interval |-> 0, cur |-> 0, init |-> 0, maxi |-> 0, limit |-> FALSE]

\* b.Reset()
Reset(b) == IF b.kind = "exponential" THEN [b EXCEPT !.cur = b.init] ELSE b

\* b.NextBackOff(): the (duration, policy afterwards) pairs it may give
NextBackOff(b) ==
    CASE b.kind = "constant" -> {[d |-> b.interval, b |-> b]}
      [] b.kind = "zero" -> {[d |-> 0, b |-> b]}
      [] b.kind = "exponential" ->
            LET after == [b EXCEPT !.cur = IF 2 * b.cur > b.maxi THEN b.maxi ELSE 2 * b.cur]
            IN {[d |-> b.cur, b |-> after]}
               \cup (IF b.limit THEN {[d |-> Stop, b |-> after]} ELSE {})
      [] OTHER -> {[d |-> Stop, b |-> b]}

\* no copy: the configured policy object itself, reset
newFromBackOffShared(hp, ref) ==
    IF hp[ref].kind \in BackOffKinds
    THEN [panic |-> FALSE, heap |-> [hp EXCEPT ![ref] = Reset(@)], ref |-> ref]
    ELSE [panic |-> TRUE, heap |-> hp, ref |-> 0]

\* a type switch whose default case copies the policy as it is
newFromBackOffAnyKind(hp, ref) ==
    [panic |-> FALSE, heap |-> Append(hp, Reset(hp[ref])), ref |-> Len(hp) + 1]

\* a copy that is not reset
newFromBackOffNoReset(hp, ref) ==
    IF hp[ref].kind \in BackOffKinds
    THEN [panic |-> FALSE, heap |-> Append(hp, hp[ref]), ref |-> Len(hp) + 1]
    ELSE [panic |-> TRUE, heap |-> hp, ref |-> 0]

\* newFromBackOff(b) (retry.go:91-111): a copy of the policy object at ref,
\* reset; the result is the heap with the copy in it and the copy's ref.
\* The type switch panics on a kind it does not list.
newFromBackOff(hp, ref) ==
    IF hp[ref].kind \in BackOffKinds
    THEN [panic |-> FALSE, heap |-> Append(hp, Reset(hp[ref])), ref |-> Len(hp) + 1]
    ELSE [panic |-> TRUE, heap |-> hp, ref |-> 0]

\* a wrapper that stops one try late
MaxRetriesOneMore(hp, ref, tries, max) ==
    IF max = 0 \/ max < tries
    THEN {[d |-> Stop, tries |-> tries, heap |-> hp]}
    ELSE {[d |-> n.d, tries |-> tries + 1, heap |-> [hp EXCEPT ![ref] = n.b]] :
            n \in NextBackOff(hp[ref])}

\* backoff.WithMaxRetries(b, max).NextBackOff(): Stop once numTries has
\* reached max (and for max = 0), else count the try and ask the delegate.
\* The wrapper's numTries lives in the frame (tries), its delegate is
\* heap[ref].  Gives the possible [d, tries, heap].
MaxRetriesNextBackOff(hp, ref, tries, max) ==
    IF max = 0 \/ max <= tries
    THEN {[d |-> Stop, tries |-> tries, heap |-> hp]}
    ELSE {[d |-> n.d, tries |-> tries + 1, heap |-> [hp EXCEPT ![ref] = n.b]] :
            n \in NextBackOff(hp[ref])}

\* ------------------------------------------------------------ retry
ShouldRetryKinds == {"default", "always", "never", "any"}

\* a predicate that takes a status of 500 for a success
defaultShouldRetryFuncUpTo500(rq, resp, err) ==
    LET ok == err = NilErr /\ ~resp.nil /\ resp.code <= 500
    IN ~ok

\* defaultShouldRetryFunc (retry.go:17-20)
defaultShouldRetryFunc(rq, resp, err) ==
    LET ok == err = NilErr /\ ~resp.nil /\ resp.code < 500
    IN ~ok

\* option.ShouldRetryFunc(req, resp, err): the answers it may give.  "any"
\* is a predicate of the caller's own, which may answer either way.
ShouldRetryFunc(pred, rq, resp, err) ==
    CASE pred = "default" -> {defaultShouldRetryFunc(rq, resp, err)}
      [] pred = "always" -> {TRUE}
      [] pred = "never" -> {FALSE}
      [] OTHER -> BOOLEAN

\* RetryOption.isEnabled (retry.go:44-46); ShouldRetryFunc "nil" and a
\* RetryBackOff of kind "nil" stand for the unset fields
RetryIsEnabled(opt, b) ==
    opt.pred # "nil" /\ b.kind # "nil" /\ opt.MaxRetry > 0

\* a deferred function that discards the response whatever the error
DeferredCloseAlways(resp, err) ==
    IF ~resp.nil
    THEN [resp |-> NilResp, err |-> err, evs |-> << <<"close", resp.obj>> >>]
    ELSE [resp |-> resp, err |-> err, evs |-> <<>>]

\* the deferred function of fn (retry.go:60-67): what it leaves in (resp, err)
\* and the events it adds
DeferredClose(resp, err) ==
    IF err # NilErr /\ ~resp.nil
    THEN [resp |-> NilResp, err |-> err, evs |-> << <<"close", resp.obj>> >>]
    ELSE [resp |-> resp, err |-> err, evs |-> <<>>]

\* sleepContext (retry.go:113-122): the cases of the select that are ready
\* when it is evaluated.  ctx.Done() is ready once the context is done; the
\* timer's channel may already be ready only for a zero wait.
SelectReady(isCancelled, d) ==
    {S \in SUBSET {"ctx", "timer"} :
        /\ ("ctx" \in S) = isCancelled
        /\ ("timer" \in S) => d = 0}

\* a sleepContext that returns nil when the context is done
sleepContextNoError(case) == NilErr

\* what sleepContext returns for the case the select took
sleepContextResult(case) == IF case = "ctx" THEN ErrValue(ContextCanceled) ELSE NilErr

\* RetryHandler's closure on entry (retry.go:50-56): with MaxRetry = 0 it
\* returns handlerFunc(req); else it clones the configured policy.
RetryEnter(c) ==
    /\ OnTop(c, "retry", "pre")
    /\ LET f == Top(c)
           nb == newFromBackOff(heap, 1)
       IN IF option.MaxRetry = 0
          THEN /\ \E kind \in config.outcomes :
                    CallNext(c, [f EXCEPT !.pc = "tail"],
                             << <<"in", f.h>>, <<"try", f.h>> >>, kind)
               /\ heap' = heap
          ELSE IF nb.panic
          THEN /\ cpc' = [cpc EXCEPT ![c] = "panic"]
               /\ trace' = [trace EXCEPT ![c] = @ \o << <<"in", f.h>>, <<"panic", f.h>> >>]
               /\ UNCHANGED <<stack, ret, got, heap>>
          ELSE /\ heap' = nb.heap
               /\ stack' = [stack EXCEPT ![c] =
                              ReplaceTop(@, [f EXCEPT !.pc = "attempt", !.b = nb.ref, !.tries = 0])]
               /\ trace' = [trace EXCEPT ![c] = @ \o << <<"in", f.h>> >>]
               /\ UNCHANGED <<ret, got, cpc>>
    /\ UNCHANGED <<config, handlers, option, closures, req, cancelled, faults, store, now>>

\* MaxRetry = 0: handlerFunc(req) has returned, and so does the interceptor
RetryTail(c) ==
    /\ OnTop(c, "retry", "tail")
    /\ Return(c, << <<"out", Top(c).h>> >>, ret[c])
    /\ UNCHANGED <<config, handlers, option, heap, closures, req, cancelled, faults, store, now>>

\* fn, retry.go:59: resp, err = handlerFunc(req)
RetryAttempt(c) ==
    /\ OnTop(c, "retry", "attempt")
    /\ \E kind \in config.outcomes :
          CallNext(c, [Top(c) EXCEPT !.pc = "decide"], << <<"try", Top(c).h>> >>, kind)
    /\ UNCHANGED <<config, handlers, option, heap, closures, req, cancelled, faults, store, now>>

\* fn leaves with (resp, err) after evs: the deferred function runs, then the
\* loop goes on (again) or the interceptor returns (retry.go:83-87).
RetryLeave(c, f, resp, err, evs, again) ==
    LET dc == DeferredClose(resp, err)
    IN IF again
       THEN /\ stack' = [stack EXCEPT ![c] =
                           ReplaceTop(@, [f EXCEPT !.pc = "attempt", !.resp = dc.resp, !.err = dc.err])]
            /\ trace' = [trace EXCEPT ![c] = @ \o evs \o dc.evs]
            /\ UNCHANGED <<ret, got, cpc>>
       ELSE Return(c, evs \o dc.evs \o << <<"out", f.h>> >>, [resp |-> dc.resp, err |-> dc.err])

\* retry.go:75-81: sleepContext has returned err2 for the case its select
\* took; a non-nil err2 wraps the attempt's error into its message and ends
\* the loop
AfterSleep(c, f, resp, err, evs, case) ==
    LET err2 == sleepContextResult(case)
    IN IF err2 # NilErr
       THEN RetryLeave(c, f, resp, Wrap(err2, ErrText(err)), evs, FALSE)
       ELSE RetryLeave(c, f, resp, err, evs, TRUE)

\* fn after handlerFunc returned (retry.go:68-82): the predicate, the next
\* backoff, and sleepContext's select.  When no case of the select is ready
\* the call blocks in it.
RetryDecide(c) ==
    /\ OnTop(c, "retry", "decide")
    /\ LET f == Top(c)
           resp == ret[c].resp
           err == ret[c].err
       IN \E should \in ShouldRetryFunc(option.pred, req[c], resp, err) :
          \E n \in MaxRetriesNextBackOff(heap, f.b, f.tries, option.MaxRetry) :
          \E ready \in SelectReady(cancelled[c], n.d) :
          \E case \in (IF ready = {} THEN {"block"} ELSE ready) :
             IF ~should
             THEN /\ RetryLeave(c, f, resp, err, << <<"pred", 0>> >>, FALSE)
                  /\ heap' = heap
             ELSE IF n.d = Stop
             THEN /\ RetryLeave(c, [f EXCEPT !.tries = n.tries], resp, err,
                                << <<"pred", 1>>, <<"stop", 0>> >>, FALSE)
                  /\ heap' = n.heap
             ELSE IF case = "block"
             THEN /\ stack' = [stack EXCEPT ![c] =
                                 ReplaceTop(@, [f EXCEPT !.pc = "blocked", !.tries = n.tries,
                                                         !.d = n.d, !.resp = resp, !.err = err])]
                  /\ trace' = [trace EXCEPT ![c] = @ \o << <<"pred", 1>>, <<"wait", n.d>> >>]
                  /\ heap' = n.heap
                  /\ UNCHANGED <<ret, got, cpc>>
             ELSE /\ AfterSleep(c, [f EXCEPT !.tries = n.tries, !.d = n.d], resp, err,
                                << <<"pred", 1>>, <<"wait", n.d>>, <<case, n.d>> >>, case)
                  /\ heap' = n.heap
    /\ UNCHANGED <<config, handlers, option, closures, req, cancelled, faults, store, now>>

\* the timer of a blocked sleepContext fires: the select takes <-timer.C
TimerFire(c) ==
    /\ OnTop(c, "retry", "blocked")
    /\ LET f == Top(c)
       IN AfterSleep(c, f, f.resp, f.err, << <<"timer", f.d>> >>, "timer")
    /\ UNCHANGED <<config, handlers, option, heap, closures, req, cancelled, faults, store, now>>

\* call c is inside rl.Take(), before the time of its permit
\* (ratelimit.go:28): nothing there reads req.Context()
InTake(c) ==
    /\ cpc[c] = "running"
    /\ Top(c).kind = "ratelimit"
    /\ Top(c).pc = "sleeping"
    /\ now < Top(c).d

\* The request's context is cancelled.  A call blocked in sleepContext's
\* select is woken by it: the select takes <-ctx.Done() (retry.go:117-118).
Cancel(c) ==
    /\ cpc[c] \in {"ready", "running"}
    /\ ~cancelled[c]
    /\ cancelled' = [cancelled EXCEPT ![c] = TRUE]
    /\ IF cpc[c] = "running" /\ Top(c).kind = "retry" /\ Top(c).pc = "blocked"
       THEN LET f == Top(c)
            IN AfterSleep(c, f, f.resp, f.err,
                          << <<"cancel", 0>>, <<"woken", f.d>> >>, "ctx")
       ELSE /\ trace' = [trace EXCEPT ![c] =
                           Append(@, <<"cancel", IF InTake(c) THEN 1 ELSE 0>>)]
            /\ UNCHANGED <<stack, ret, got, cpc>>
    /\ UNCHANGED <<config, handlers, option, heap, closures, req, faults, store, now>>

\* ------------------------------------------------------------ logger
\* getLoggerEntry (logger.go:103-143) with NewLoggerOption's settings reads
\* the request body when there is one and the response body when there is a
\* response; a read may fail when the run injects "read" failures.
LoggerReads(rq, resp) == rq.hasBody \/ ~resp.nil

\* LoggerHandler before the call (logger.go:89-90)
LoggerCall(c) ==
    /\ OnTop(c, "logger", "pre")
    /\ \E kind \in config.outcomes :
          CallNext(c, [Top(c) EXCEPT !.pc = "post"], << <<"in", Top(c).h>> >>, kind)
    /\ UNCHANGED <<config, handlers, option, heap, closures, req, cancelled, faults, store, now>>

\* The results getLoggerEntry may have (logger.go:120-136): failed says
\* that a body read failed, resp is the response as it leaves it: with the
\* copied body, untouched when the request body's read failed, read into
\* when its own read failed.
getLoggerEntry(rq, resp, flt) ==
    {[failed |-> FALSE, resp |-> IF resp.nil THEN resp ELSE copyHTTPResponseBody(resp).resp]}
    \cup (IF "read" \in flt /\ rq.hasBody
          THEN {[failed |-> TRUE, resp |-> resp]} ELSE {})
    \cup (IF "read" \in flt /\ ~resp.nil
          THEN {[failed |-> TRUE, resp |-> Drained(resp)]} ELSE {})

\* LoggerHandler after the call (logger.go:92-99): one record through
\* LoggerFunc, or a warning when the entry could not be built; the named
\* results (resp, err) are returned.
LoggerReturn(c) ==
    /\ OnTop(c, "logger", "post")
    /\ \E entry \in getLoggerEntry(req[c], ret[c].resp, faults) :
          Return(c, << IF entry.failed THEN <<"warn", Top(c).h>>
                       ELSE <<"log", ret[c].resp.code>>,
                       <<"out", Top(c).h>> >>,
                 [resp |-> entry.resp, err |-> ret[c].err])
    /\ UNCHANGED <<config, handlers, option, heap, closures, req, cancelled, faults, store, now>>

\* ------------------------------------------------------------ the client
\* NewClient (client.go:40-83): the interceptors whose option is enabled, in
\* the fixed order logger, retry, rate limit, circuit breaker, trace, cache,
\* body size.  o says which options were given; the retry option is enabled
\* as RetryOption.isEnabled says.
RECURSIVE SelectEnabled(_)
SelectEnabled(gs) ==
    IF gs = <<>> THEN <<>>
    ELSE IF Head(gs).Enable THEN <<Head(gs).Handler>> \o SelectEnabled(Tail(gs))
    ELSE SelectEnabled(Tail(gs))

\* the retry interceptor listed before the logger
NewClientRetryFirst(o, opt, b) ==
    SelectEnabled(<< [Enable |-> RetryIsEnabled(opt, b), Handler |-> "retry"],
                     [Enable |-> o.logger, Handler |-> "logger"],
                     [Enable |-> o.rateLimit, Handler |-> "ratelimit"],
                     [Enable |-> o.hystrix, Handler |-> "hystrix"],
                     [Enable |-> o.trace, Handler |-> "trace"],
                     [Enable |-> o.cache, Handler |-> "cache"],
                     [Enable |-> o.maxBodySize > 0, Handler |-> "bodysize"] >>)

NewClient(o, opt, b) ==
    SelectEnabled(<< [Enable |-> o.logger, Handler |-> "logger"],
                     [Enable |-> RetryIsEnabled(opt, b), Handler |-> "retry"],
                     [Enable |-> o.rateLimit, Handler |-> "ratelimit"],
                     [Enable |-> o.hystrix, Handler |-> "hystrix"],
                     [Enable |-> o.trace, Handler |-> "trace"],
                     [Enable |-> o.cache, Handler |-> "cache"],
                     [Enable |-> o.maxBodySize > 0, Handler |-> "bodysize"] >>)

NoOptions ==
    [logger |-> FALSE, rateLimit |-> FALSE, hystrix |-> FALSE, trace |-> FALSE,
     cache |-> FALSE, maxBodySize |-> 0]

\* Client.retryOption as NewClient's &Client{...} leaves it (client.go:41-44):
\* the zero RetryOption, whose ShouldRetryFunc is nil
ZeroRetryOption == [MaxRetry |-> 0, pred |-> "nil"]

\* WithShouldRetryFunc(fn) (option.go:35-39)
WithShouldRetryFunc(opt, fn) == [opt EXCEPT !.pred = fn]

\* WithMaxRetry(n) (option.go:43-47)
WithMaxRetry(opt, n) == [opt EXCEPT !.MaxRetry = n]

\* ------------------------------------------------------------ requests
\* A request: hasBody says that Body is not nil, body names the bytes the
\* Body stream still yields (0: none).
Request(method, url, hasBody) ==
    [method |-> method, url |-> url, header |-> NoHeader, hasBody |-> hasBody,
     body |-> IF hasBody THEN 1 ELSE 0]

\* copyHTTPRequestBody (logger.go:145-152) when the read succeeds
copyHTTPRequestBody(rq) ==
    LET body == rq.body
    IN [body |-> body, req |-> [[rq EXCEPT !.body = 0] EXCEPT !.body = body]]

\* ------------------------------------------------------------ the codec
\* HTTPRequestResponse for no transaction
NoEntry ==
    [Method |-> "", URL |-> 0, RequestHeader |-> NoHeader, RequestBody |-> 0,
     recorded |-> FALSE, Status |-> "", StatusCode |-> 0, Proto |-> "",
     ResponseHeader |-> NoHeader, ResponseBody |-> 0, Error |-> <<>>]

ReadError == "read failed"

\* Encode reads the request body when there is one and the response body
\* when there is a response (cache.go:180-197)
EncodeReads(rq, resp) == rq.hasBody \/ ~resp.nil

\* requestEntryEncoderDecoder.Encode (cache.go:164-217) of a transaction
\* with a request that has a URL: the results it may have, a read of a body
\* failing when the run injects "read" failures.  resp is the response as
\* Encode leaves it: with the copied body, or read into when its read failed.
Encode(rq, resp, err, flt) ==
    {[err |-> NilErr,
      value |-> [Method |-> rq.method, URL |-> rq.url,
                 RequestHeader |-> httpHeaderToMap(rq.header),
                 RequestBody |-> IF rq.hasBody THEN copyHTTPRequestBody(rq).body ELSE 0,
                 recorded |-> TRUE,
                 Status |-> IF resp.nil THEN "" ELSE resp.status,
                 StatusCode |-> IF resp.nil THEN 0 ELSE resp.code,
                 Proto |-> IF resp.nil THEN "" ELSE resp.proto,
                 ResponseHeader |-> IF resp.nil THEN NoHeader
                                    ELSE httpHeaderToMap(resp.header),
                 ResponseBody |-> IF resp.nil THEN 0 ELSE copyHTTPResponseBody(resp).body,
                 Error |-> IF err = NilErr THEN <<>> ELSE ErrText(err)],
      resp |-> IF resp.nil THEN resp ELSE copyHTTPResponseBody(resp).resp]}
    \cup (IF "read" \in flt /\ rq.hasBody
          THEN {[err |-> ErrValue(ReadError), value |-> NoEntry, resp |-> resp]}
          ELSE {})
    \cup (IF "read" \in flt /\ ~resp.nil
          THEN {[err |-> ErrValue(ReadError), value |-> NoEntry, resp |-> Drained(resp)]}
          ELSE {})

\* http.NewRequest (cache.go:227): an empty method means GET
NewRequestMethod(method) == IF method = "" THEN "GET" ELSE method

\* a Decode that makes a response whatever the recorded status code
DecodeAlwaysResponse(e) ==
    [Request |-> [method |-> NewRequestMethod(e.Method), url |-> e.URL,
                  header |-> NoHeader, hasBody |-> TRUE, body |-> e.RequestBody],
     Response |-> [nil |-> FALSE, code |-> e.StatusCode, status |-> e.Proto,
                   proto |-> e.Proto, header |-> mapToHTTPHeader(e.ResponseHeader),
                   body |-> e.ResponseBody, obj |-> 0],
     Error |-> IF e.Error # <<>> THEN << [k |-> "err", v |-> e.Error] >> ELSE NilErr]

\* requestEntryEncoderDecoder.Decode (cache.go:220-258) of bytes that
\* unmarshal: a request made by http.NewRequest from the method, the URL
\* and the body (e.RequestHeader is not used); a response only for a
\* positive status code, its Status taken from e.Proto (cache.go:236); and
\* an error made of the recorded text
Decode(e) ==
    [Request |-> [method |-> NewRequestMethod(e.Method), url |-> e.URL,
                  header |-> NoHeader, hasBody |-> TRUE, body |-> e.RequestBody],
     Response |-> IF e.StatusCode > 0
                  THEN [nil |-> FALSE, code |-> e.StatusCode, status |-> e.Proto,
                        proto |-> e.Proto, header |-> mapToHTTPHeader(e.ResponseHeader),
                        body |-> e.ResponseBody, obj |-> 0]
                  ELSE NilResp,
     Error |-> IF e.Error # <<>> THEN << [k |-> "err", v |-> e.Error] >> ELSE NilErr]

\* bytes in the storage that are no encoded transaction
Malformed == [NoEntry EXCEPT !.Method = "malformed"]

DecodeError == "decode failed"

\* a Decode that takes any bytes for a transaction
DecodeErrNever(e) == NilErr

\* a method that http.NewRequest rejects, and a URL string that it cannot parse
BadMethod == "()"
BadURL == -1

InvalidMethod == "net/http: invalid method"
ParseURLError == "parse url failed"

\* the error of Decode (cache.go:222-230): msgpack.Unmarshal fails on bytes
\* that are no encoded transaction, http.NewRequest on a method that is no
\* token and on a URL that does not parse
DecodeErr(e) ==
    IF ~e.recorded THEN ErrValue(DecodeError)
    ELSE IF NewRequestMethod(e.Method) = BadMethod THEN ErrValue(InvalidMethod)
    ELSE IF e.URL = BadURL THEN ErrValue(ParseURLError)
    ELSE NilErr

\* no request: entry.Request == nil, and the Request of a zero RequestEntry
NilRequest == [nil |-> TRUE]

\* a body whose Read fails (testErrReader, cache_test.go:103-106)
BadReader == -1

RequestNotFound == "Request not found in RequestEntry"
URLNotFound == "URL not found in RequestEntry"

\* an Encode that does not look for the URL
EncodeEntryAnyURL(rq, resp, err) ==
    IF rq = NilRequest
    THEN [err |-> ErrValue(RequestNotFound), value |-> NoEntry, nilBytes |-> TRUE]
    ELSE [err |-> NilErr, value |-> (CHOOSE enc \in Encode(rq, resp, err, {}) : TRUE).value,
          nilBytes |-> FALSE]

\* requestEntryEncoderDecoder.Encode (cache.go:164-217) of any entry: the
\* tests of the request and its URL, then the reads of the bodies, a body
\* that is BadReader failing its read
EncodeEntry(rq, resp, err) ==
    IF rq = NilRequest
    THEN [err |-> ErrValue(RequestNotFound), value |-> NoEntry, nilBytes |-> TRUE]
    ELSE IF rq.url = 0
    THEN [err |-> ErrValue(URLNotFound), value |-> NoEntry, nilBytes |-> TRUE]
    ELSE IF rq.hasBody /\ rq.body = BadReader
    THEN [err |-> ErrValue(ReadError), value |-> NoEntry, nilBytes |-> TRUE]
    ELSE IF ~resp.nil /\ resp.body = BadReader
    THEN [err |-> ErrValue(ReadError), value |-> NoEntry, nilBytes |-> TRUE]
    ELSE [err |-> NilErr, value |-> (CHOOSE enc \in Encode(rq, resp, err, {}) : TRUE).value,
          nilBytes |-> FALSE]

\* requestEntryEncoderDecoder.Decode (cache.go:220-258) of any bytes: the
\* bare returns leave re the zero RequestEntry
DecodeEntry(e) ==
    IF DecodeErr(e) # NilErr
    THEN [Request |-> NilRequest, Response |-> NilResp, Error |-> NilErr, err |-> DecodeErr(e)]
    ELSE [Request |-> Decode(e).Request, Response |-> Decode(e).Response,
          Error |-> Decode(e).Error, err |-> NilErr]

\* ------------------------------------------------------------ the cache functions
NoHash == <<>>

\* DefaultRequestHashFunc (cache.go:35-47): nil unless the method is GET,
\* else the digest of the URL string
DefaultRequestHashFuncAnyMethod(rq) == <<"sha1", rq.url>>

DefaultRequestHashFunc(rq) ==
    IF rq.method = "GET" THEN <<"sha1", rq.url>> ELSE NoHash

\* DefaultShouldCacheFunc without the test of the status code
ShouldCacheAnyStatus(rq, resp, err) == rq.method = "GET" /\ ~resp.nil /\ err = NilErr

\* DefaultShouldCacheFunc (cache.go:28-32)
DefaultShouldCacheFunc(rq, resp, err) ==
    rq.method = "GET" /\ ~resp.nil /\ resp.code = 200 /\ err = NilErr

\* ------------------------------------------------------------ the storage
Urls == {1}

Keys == {<<"sha1", u>> : u \in Urls}

NoItem == [set |-> FALSE, value |-> NoEntry, exp |-> 0, forever |-> FALSE]

ErrCacheKeyNotFound == "cache key not found"
StorageError == "storage failed"

\* an item that is taken for expired at its expiry instant already
FreshBeforeExpiry(item, t) == item.set /\ (item.forever \/ t < item.exp)

\* an item that is there and has not expired at time t: go-cache's Get
\* drops an item when now > Expiration, FileCache.Get keeps it while
\* ttl.Sub(now) >= 0 (cacher.go:94)
Fresh(item, t) == item.set /\ (item.forever \/ t <= item.exp)

\* a Get that never finds an item expired
CacherGetNeverExpires(kind, st, key, t, flt) ==
    {IF st[key].set
     THEN [err |-> NilErr, value |-> st[key].value, store |-> st]
     ELSE [err |-> ErrValue(ErrCacheKeyNotFound), value |-> NoEntry, store |-> st]}

\* Cacher.Get(key) at time t: MemoryCache.Get (cacher.go:35-41),
\* FileCache.Get (cacher.go:73-105), which removes the file it finds
\* expired and may fail on file I/O, and RedisCache.Get (cacher.go:149-158),
\* which may fail on the connection
CacherGet(kind, st, key, t, flt) ==
    {IF Fresh(st[key], t)
     THEN [err |-> NilErr, value |-> st[key].value, store |-> st]
     ELSE [err |-> ErrValue(ErrCacheKeyNotFound), value |-> NoEntry,
           store |-> IF kind = "file" THEN [st EXCEPT ![key] = NoItem] ELSE st]}
    \cup (IF (kind = "file" /\ "get" \in flt /\ st[key].set) \/ (kind = "redis" /\ "get" \in flt)
          THEN {[err |-> ErrValue(StorageError), value |-> NoEntry, store |-> st]}
          ELSE {})

\* a Set that keeps only a part of the value
CacherSetPartial(kind, st, key, value, ttl, t, flt) ==
    {[err |-> NilErr,
      store |-> [st EXCEPT ![key] =
                    [set |-> TRUE, value |-> Malformed, exp |-> t + ttl,
                     forever |-> kind \in {"memory", "redis"} /\ ttl <= 0]]]}

\* Cacher.Set(key, value, ttl) at time t: MemoryCache.Set (cacher.go:44-47;
\* go-cache keeps an item for ever when ttl <= 0), FileCache.Set
\* (cacher.go:108-124), which may fail on file I/O, and RedisCache.Set
\* (cacher.go:161-164; an expiration of 0 sets a key that never expires),
\* which may fail on the connection
CacherSet(kind, st, key, value, ttl, t, flt) ==
    {[err |-> NilErr,
      store |-> [st EXCEPT ![key] =
                    [set |-> TRUE, value |-> value, exp |-> t + ttl,
                     forever |-> kind \in {"memory", "redis"} /\ ttl <= 0]]]}
    \cup (IF kind \in {"file", "redis"} /\ "set" \in flt
          THEN {[err |-> ErrValue(StorageError), store |-> st]}
          ELSE {})

\* ------------------------------------------------------------ cache
\* a Set whose error is returned in place of the result
AfterSetSurfaces(r, setErr) ==
    IF setErr # NilErr THEN [resp |-> NilResp, err |-> setErr] ELSE r

\* cache.go:126-127: `_ = option.Cacher.Set(...)` and the bare return of the
\* named results r
AfterSet(r, setErr) == r

\* an Encode failure returned without its context
EncodeFailureBare(err) == [resp |-> NilResp, err |-> err]

\* cache.go:121-123: return nil, errors.Wrap(err, "Serialization request")
EncodeFailure(err) == [resp |-> NilResp, err |-> Wrap(err, <<"Serialization request">>)]

\* CacheHandler before the call (cache.go:92-103): with a fingerprint the
\* storage is asked; a value that decodes is returned at once, else
\* handlerFunc is called.  Appends <<"in", h>> and <<"nokey", 0>> (no
\* fingerprint), <<"hit", now>>, <<"miss", now>> (Get failed) or
\* <<"undecodable", now>> (Decode failed).
CacheEnter(c) ==
    /\ OnTop(c, "cache", "pre")
    /\ LET f == Top(c)
           hash == DefaultRequestHashFunc(req[c])
       IN IF hash = NoHash
          THEN /\ \E kind \in config.outcomes :
                     CallNext(c, [f EXCEPT !.pc = "post"],
                              << <<"in", f.h>>, <<"nokey", 0>> >>, kind)
               /\ store' = store
          ELSE \E g \in CacherGet(config.cacher, store, hash, now, faults) :
                  /\ store' = g.store
                  /\ IF g.err = NilErr /\ DecodeErr(g.value) = NilErr
                     THEN Return(c, << <<"in", f.h>>, <<"hit", now>>, <<"out", f.h>> >>,
                                 [resp |-> Decode(g.value).Response,
                                  err |-> Decode(g.value).Error])
                     ELSE \E kind \in config.outcomes :
                             CallNext(c, [f EXCEPT !.pc = "post"],
                                      << <<"in", f.h>>,
                                         IF g.err = NilErr THEN <<"undecodable", now>>
                                         ELSE <<"miss", now>> >>, kind)
    /\ UNCHANGED <<config, handlers, option, heap, closures, req, cancelled, faults, now>>

\* CacheHandler after the call (cache.go:105-127): a result the predicate
\* finds cacheable is encoded and stored under the fingerprint with the ttl;
\* a failed Set is ignored, a failed Encode is returned.  Appends
\* <<"set", now>>, <<"setfail", now>> or <<"encfail", 0>>, and <<"out", h>>.
CacheStore(c) ==
    /\ OnTop(c, "cache", "post")
    /\ LET f == Top(c)
           resp == ret[c].resp
           returnErr == ret[c].err
           hash == DefaultRequestHashFunc(req[c])
       IN IF ~DefaultShouldCacheFunc(req[c], resp, returnErr) \/ hash = NoHash
          THEN /\ Return(c, << <<"out", f.h>> >>, ret[c])
               /\ store' = store
          ELSE \E enc \in Encode(req[c], resp, returnErr, faults) :
                  IF enc.err # NilErr
                  THEN /\ Return(c, << <<"encfail", 0>>, <<"out", f.h>> >>,
                                 EncodeFailure(enc.err))
                       /\ store' = store
                  ELSE \E s \in CacherSet(config.cacher, store, hash, enc.value,
                                          config.ttl, now, faults) :
                          /\ store' = s.store
                          /\ Return(c, << IF s.err = NilErr THEN <<"set", now>>
                                          ELSE <<"setfail", now>>,
                                          <<"out", f.h>> >>,
                                    AfterSet([resp |-> enc.resp, err |-> returnErr], s.err))
    /\ UNCHANGED <<config, handlers, option, heap, closures, req, cancelled, faults, now>>

\* the caller sends its request once more
Again(c) ==
    /\ cpc[c] = "done"
    /\ Count(trace[c], <<"in", 1>>) < MaxRequests
    /\ cpc' = [cpc EXCEPT ![c] = "ready"]
    /\ UNCHANGED <<config, handlers, option, heap, stack, closures, trace, ret, got, req,
                   cancelled, faults, store, now>>

\* the stored bytes of a key are overwritten from outside with bytes that
\* are no encoded transaction, in runs that inject "corrupt"
Corrupt ==
    /\ "corrupt" \in faults
    /\ \E k \in Keys :
          /\ store[k].set
          /\ store[k].value # Malformed
          /\ store' = [store EXCEPT ![k].value = Malformed]
    /\ UNCHANGED <<config, handlers, option, heap, stack, closures, trace, ret, got, cpc, req,
                   cancelled, faults, now>>

\* time passes
Tick ==
    /\ now < MaxClock
    /\ now' = now + 1
    /\ UNCHANGED <<config, handlers, option, heap, stack, closures, trace, ret, got, cpc, req,
                   cancelled, faults, store>>

\* ------------------------------------------------------------ circuit breaker
\* The circuit of the request's host, of the hystrix opener and closer as
\* defaultHystrixFactory configures them (hystrix.go:38-48), scaled down: it
\* opens on a failure when at least RequestVolumeThreshold calls were
\* counted and ErrorThresholdPercentage of them failed; SleepWindow after
\* it opened it admits one call, whose success closes it.
RequestVolumeThreshold == 2
ErrorThresholdPercentage == 50
SleepWindow == 1

ClosedCircuit == [open |-> FALSE, ok |-> 0, failed |-> 0, since |-> 0]

CircuitOpen == "circuit is open: concurrencyReached=false circuitOpen=true"

\* the circuit lets a call run at time t
Admits(cb, t) == ~cb.open \/ t >= cb.since + SleepWindow

\* the circuit after a call that it let run returned err at time t
Counted(cb, err, t) ==
    IF err = NilErr
    THEN IF cb.open THEN ClosedCircuit ELSE [cb EXCEPT !.ok = @ + 1]
    ELSE IF cb.open THEN [cb EXCEPT !.since = t]
    ELSE LET failed == cb.failed + 1
             total == cb.ok + failed
         IN IF total >= RequestVolumeThreshold /\ 100 * failed >= ErrorThresholdPercentage * total
            THEN [cb EXCEPT !.failed = failed, !.open = TRUE, !.since = t]
            ELSE [cb EXCEPT !.failed = failed]

\* a fallback that labels the error it is given
FallbackLabels(err) == Wrap(err, <<"circuit">>)

\* the fallback function given to Execute (hystrix.go:111-113): return err
Fallback(err) == err

\* HystrixHandler's closure (hystrix.go:106-114): c.Execute on the circuit.
\* An open circuit does not run the function and hands its own error to the
\* fallback; the named results are still nil.  Else handlerFunc is called.
HystrixExecute(c) ==
    /\ OnTop(c, "hystrix", "pre")
    /\ IF Admits(store, now)
       THEN \E kind \in config.outcomes :
               CallNext(c, [Top(c) EXCEPT !.pc = "post"], << <<"in", Top(c).h>> >>, kind)
       ELSE Return(c, << <<"in", Top(c).h>>, <<"open", 0>>, <<"out", Top(c).h>> >>,
                   [resp |-> NilResp, err |-> Fallback(ErrValue(CircuitOpen))])
    /\ UNCHANGED <<config, handlers, option, heap, closures, req, cancelled, faults, store, now>>

\* handlerFunc has returned: the circuit counts the call, a failure goes
\* through the fallback, and the closure returns the named results
HystrixReturn(c) ==
    /\ OnTop(c, "hystrix", "post")
    /\ store' = Counted(store, ret[c].err, now)
    /\ Return(c, << <<"out", Top(c).h>> >>,
              [resp |-> ret[c].resp,
               err |-> IF ret[c].err = NilErr THEN NilErr ELSE Fallback(ret[c].err)])
    /\ UNCHANGED <<config, handlers, option, heap, closures, req, cancelled, faults, now>>

\* ------------------------------------------------------------ trace
\* TraceHandler's closure (trace.go:52-61): nethttp.TraceRequest starts the
\* span, the deferred ht.Finish() ends it, and handlerFunc's results are
\* returned
TraceCall(c) ==
    /\ OnTop(c, "trace", "pre")
    /\ \E kind \in config.outcomes :
          CallNext(c, [Top(c) EXCEPT !.pc = "post"],
                   << <<"in", Top(c).h>>, <<"span", Top(c).h>> >>, kind)
    /\ UNCHANGED <<config, handlers, option, heap, closures, req, cancelled, faults, store, now>>

TraceReturn(c) ==
    /\ OnTop(c, "trace", "post")
    /\ Return(c, << <<"finish", Top(c).h>>, <<"out", Top(c).h>> >>, ret[c])
    /\ UNCHANGED <<config, handlers, option, heap, closures, req, cancelled, faults, store, now>>

\* ------------------------------------------------------------ body size
\* a parse that takes every text it cannot read for 0
ParseUintOrZero(s) ==
    CASE s = "0" -> [ok |-> TRUE, value |-> 0]
      [] s = "1" -> [ok |-> TRUE, value |-> 1]
      [] s = "2" -> [ok |-> TRUE, value |-> 2]
      [] s = "3" -> [ok |-> TRUE, value |-> 3]
      [] OTHER -> [ok |-> TRUE, value |-> 0]

\* strconv.ParseUint(s, 10, 64) on the texts that occur: the number, or an
\* error for the empty text, a text that is no number and a number that
\* does not fit 64 bits
ParseUint(s) ==
    CASE s = "0" -> [ok |-> TRUE, value |-> 0]
      [] s = "1" -> [ok |-> TRUE, value |-> 1]
      [] s = "2" -> [ok |-> TRUE, value |-> 2]
      [] s = "3" -> [ok |-> TRUE, value |-> 3]
      [] OTHER -> [ok |-> FALSE, value |-> 0]

ParseError == "strconv.ParseUint: parsing failed"
TooLarge == "The server response data is too large"

\* a limit that the declared length must stay below
BodySizeResultBelow(max, resp, err) ==
    IF err # NilErr THEN [resp |-> resp, err |-> err]
    ELSE LET p == ParseUint(HeaderGet(resp.header, "Content-Length"))
         IN IF ~p.ok
            THEN [resp |-> NilResp,
                  err |-> Wrap(ErrValue(ParseError), <<"Parse the data size of the response content">>)]
            ELSE IF p.value >= max
            THEN [resp |-> NilResp, err |-> ErrValue(TooLarge)]
            ELSE [resp |-> resp, err |-> NilErr]

\* BodySizeHandler's closure after handlerFunc returned (resp, err)
\* (body_size.go:32-45): what it returns
BodySizeResult(max, resp, err) ==
    IF err # NilErr THEN [resp |-> resp, err |-> err]
    ELSE LET p == ParseUint(HeaderGet(resp.header, "Content-Length"))
         IN IF ~p.ok
            THEN [resp |-> NilResp,
                  err |-> Wrap(ErrValue(ParseError), <<"Parse the data size of the response content">>)]
            ELSE IF p.value > max
            THEN [resp |-> NilResp, err |-> ErrValue(TooLarge)]
            ELSE [resp |-> resp, err |-> NilErr]

\* resp, err = handlerFunc(req) (body_size.go:31)
BodySizeCall(c) ==
    /\ OnTop(c, "bodysize", "pre")
    /\ \E kind \in config.outcomes :
          CallNext(c, [Top(c) EXCEPT !.pc = "post"], << <<"in", Top(c).h>> >>, kind)
    /\ UNCHANGED <<config, handlers, option, heap, closures, req, cancelled, faults, store, now>>

BodySizeReturn(c) ==
    /\ OnTop(c, "bodysize", "post")
    /\ Return(c, << <<"out", Top(c).h>> >>,
              BodySizeResult(config.o.maxBodySize, ret[c].resp, ret[c].err))
    /\ UNCHANGED <<config, handlers, option, heap, closures, req, cancelled, faults, store, now>>

\* ------------------------------------------------------------ rate limit
\* A URL as net/url holds it.  forceQuery: the URL ended with a "?" and an
\* empty query.
URL(scheme, user, host, path, rawQuery, forceQuery, fragment) ==
    [scheme |-> scheme, user |-> user, host |-> host, path |-> path,
     rawQuery |-> rawQuery, forceQuery |-> forceQuery, fragment |-> fragment]

\* url.URL.String(): the parts it writes, in order
URLString(u) ==
    <<u.scheme, "://">>
    \o (IF u.user # "" THEN <<u.user, "@">> ELSE <<>>)
    \o <<u.host, u.path>>
    \o (IF u.forceQuery \/ u.rawQuery # "" THEN <<"?", u.rawQuery>> ELSE <<>>)
    \o (IF u.fragment # "" THEN <<"#", u.fragment>> ELSE <<>>)

\* getURLStringEndWithPath (ratelimit.go:88-102): a copy of the URL without
\* User, RawQuery and Fragment, ForceQuery kept, as a string
getURLStringEndWithPath(u) ==
    URLString([u EXCEPT !.user = "", !.rawQuery = "", !.fragment = ""])

\* strings.ToLower on the texts that occur
ToLower(s) ==
    CASE s = "HTTPS" -> "https"
      [] s = "Example.com" -> "example.com"
      [] s = "/A" -> "/a"
      [] OTHER -> s

\* the key of defaultRateLimitFunc (ratelimit.go:20-23):
\* fmt.Sprintf("%s %s", req.Method, strings.ToLower(getURLStringEndWithPath(req.URL)))
RateLimitKey(rq) ==
    LET str == getURLStringEndWithPath(rq.url)
    IN <<rq.method, " ">> \o [i \in 1..Len(str) |-> ToLower(str[i])]

\* ratelimit.New(rate): a limiter whose next permit is free at time next
NewLimiter == [kind |-> "limiter", next |-> 0]

\* the time between two permits of a limiter
PermitInterval == 1

\* RateLimitHandler's closure enters defaultRateLimitFunc, which evaluates
\* the argument option.RateLimitConstructor() (ratelimit.go:25): a new limiter
RateLimitConstruct(c) ==
    /\ OnTop(c, "ratelimit", "pre")
    /\ heap' = Append(heap, NewLimiter)
    /\ stack' = [stack EXCEPT ![c] =
                   ReplaceTop(@, [Top(c) EXCEPT !.pc = "made", !.b = Len(heap) + 1])]
    /\ trace' = [trace EXCEPT ![c] = Append(@, <<"in", Top(c).h>>)]
    /\ UNCHANGED <<config, handlers, option, closures, ret, got, cpc, req, cancelled,
                   faults, store, now>>

\* val, _ := option.RateLimits.LoadOrStore(key, ...) (ratelimit.go:25-26),
\* one atomic step of sync.Map: the limiter kept under the key, which is the
\* new one only when the key had none
RateLimitLoadOrStore(c) ==
    /\ OnTop(c, "ratelimit", "made")
    /\ LET key == RateLimitKey(req[c])
           rl == IF store[key] = 0 THEN Top(c).b ELSE store[key]
       IN /\ store' = [store EXCEPT ![key] = rl]
          /\ stack' = [stack EXCEPT ![c] =
                         ReplaceTop(@, [Top(c) EXCEPT !.pc = "loaded", !.b = rl])]
    /\ UNCHANGED <<config, handlers, option, heap, closures, trace, ret, got, cpc, req,
                   cancelled, faults, now>>

\* rl.Take() (ratelimit.go:27) takes the limiter's next permit, at time d,
\* and sleeps until then
RateLimitTake(c) ==
    /\ OnTop(c, "ratelimit", "loaded")
    /\ LET rl == Top(c).b
           d == IF heap[rl].next > now THEN heap[rl].next ELSE now
       IN /\ heap' = [heap EXCEPT ![rl].next = d + PermitInterval]
          /\ stack' = [stack EXCEPT ![c] =
                         ReplaceTop(@, [Top(c) EXCEPT !.pc = "sleeping", !.d = d])]
          /\ trace' = [trace EXCEPT ![c] = Append(@, <<"take", rl>>)]
    /\ UNCHANGED <<config, handlers, option, closures, ret, got, cpc, req, cancelled,
                   faults, store, now>>

\* Take returns at the permit's time, defaultRateLimitFunc returns nil and
\* the closure returns handlerFunc(req) (ratelimit.go:29, 81-85)
RateLimitCall(c) ==
    /\ OnTop(c, "ratelimit", "sleeping")
    /\ now >= Top(c).d
    /\ \E kind \in config.outcomes :
          CallNext(c, [Top(c) EXCEPT !.pc = "post"], << <<"permit", Top(c).b>> >>, kind)
    /\ UNCHANGED <<config, handlers, option, heap, closures, req, cancelled, faults, store, now>>

RateLimitReturn(c) ==
    /\ OnTop(c, "ratelimit", "post")
    /\ Return(c, << <<"out", Top(c).h>> >>, ret[c])
    /\ UNCHANGED <<config, handlers, option, heap, closures, req, cancelled, faults, store, now>>

\* ------------------------------------------------------------ the chain
\* Interceptor lists of the composer's callers: up to MaxN interceptors that
\* pass, short-circuit or retry (at most one retry interceptor).
RECURSIVE SeqsUpTo(_, _)
SeqsUpTo(S, n) ==
    IF n = 0 THEN {<<>>}
    ELSE LET shorter == SeqsUpTo(S, n - 1)
         IN shorter \cup {Append(s, x) : s \in shorter, x \in S}

ChainLists ==
    {hs \in SeqsUpTo({"pass", "short", "retry"}, MaxN) :
        Cardinality({i \in 1..Len(hs) : hs[i] = "retry"}) <= 1}

\* the list was handed to ChainRequestHandlers by the caller
NoClient ==
    [client |-> FALSE, o |-> NoOptions, outcomes |-> OutcomeKinds,
     cacher |-> "memory", ttl |-> 1]

\* the clients built with or without the logger option
ClientConfigs ==
    {[NoClient EXCEPT !.client = TRUE, !.o = [NoOptions EXCEPT !.logger = lg]] :
        lg \in BOOLEAN}

\* NewClient(), no option given
NewClientNoOptions == [NoClient EXCEPT !.client = TRUE]

Idle == [c \in Calls |-> <<>>]

InitChain ==
    /\ \/ /\ option \in [MaxRetry : 0..MaxRetryBound, pred : {"any"}]
          /\ heap \in {<<ZeroBackOff>>, <<ConstantBackOff(1)>>}
          /\ config \in {NoClient} \cup ClientConfigs
       \/ /\ option = ZeroRetryOption
          /\ heap = <<NilBackOff>>
          /\ config = NewClientNoOptions
    /\ IF config.client
       THEN handlers = NewClient(config.o, option, heap[1])
       ELSE handlers \in ChainLists
    /\ stack = Idle
    /\ closures = Idle
    /\ trace = Idle
    /\ ret = [c \in Calls |-> NoResult]
    /\ got = Idle
    /\ cpc = [c \in Calls |-> IF c = 1 THEN "ready" ELSE "unused"]
    /\ req \in [Calls -> {Request("GET", 1, hb) : hb \in BOOLEAN}]
    /\ req[2] = req[1]
    /\ cancelled = [c \in Calls |-> FALSE]
    /\ faults \in {{}, {"read"}}
    /\ store = <<>>
    /\ now = 0

NextChain ==
    \E c \in Calls :
        \/ Start(c)
        \/ NoOpCall(c) \/ NoOpReturn(c)
        \/ PassCall(c) \/ PassReturn(c)
        \/ ShortReturn(c)
        \/ RetryEnter(c) \/ RetryTail(c) \/ RetryAttempt(c) \/ RetryDecide(c)
        \/ TimerFire(c)
        \/ LoggerCall(c) \/ LoggerReturn(c)

SpecChain == InitChain /\ [][NextChain]_vars

\* ------------------------------------------------------------ retry alone
\* RetryHandler(option) called as the tests call it, handler(req,
\* handlerFunc), with every configured policy: a constant wait, no wait, stop,
\* an exponential policy (already advanced or not, with or without
\* MaxElapsedTime) and a policy type newFromBackOff does not know.
ConfiguredPolicies ==
    {ConstantBackOff(1), ZeroBackOff, StopBackOff, OtherBackOff}
    \cup {ExponentialBackOff(cur, limit) : cur \in {1, 2, 4}, limit \in BOOLEAN}

InitRetry ==
    /\ config = NoClient
    /\ handlers = <<"retry">>
    /\ option \in [MaxRetry : 0..MaxRetryBound, pred : ShouldRetryKinds]
    /\ heap \in {<<b>> : b \in ConfiguredPolicies}
    /\ stack = Idle
    /\ closures = Idle
    /\ trace = Idle
    /\ ret = [c \in Calls |-> NoResult]
    /\ got = Idle
    /\ cpc = [c \in Calls |-> IF c = 1 THEN "ready" ELSE "unused"]
    /\ req = [c \in Calls |-> Request("GET", 1, FALSE)]
    /\ cancelled = [c \in Calls |-> FALSE]
    /\ faults = {}
    /\ store = <<>>
    /\ now = 0

NextRetry ==
    \E c \in Calls :
        \/ Start(c)
        \/ RetryEnter(c) \/ RetryTail(c) \/ RetryAttempt(c) \/ RetryDecide(c)
        \/ TimerFire(c)
        \/ Cancel(c)

SpecRetry == InitRetry /\ [][NextRetry]_vars

\* ------------------------------------------------------------ concurrent retry
\* Two calls at once through one RetryHandler(option): the terminal call
\* fails every time.
InitRetryConc ==
    /\ config = [NoClient EXCEPT !.outcomes = {"fail"}]
    /\ handlers = <<"retry">>
    /\ option \in [MaxRetry : 0..MaxRetryBound, pred : {"always", "any"}]
    /\ heap \in {<<b>> : b \in {ConstantBackOff(1), StopBackOff, ExponentialBackOff(1, TRUE),
                               ExponentialBackOff(2, FALSE), ExponentialBackOff(4, FALSE)}}
    /\ stack = Idle
    /\ closures = Idle
    /\ trace = Idle
    /\ ret = [c \in Calls |-> NoResult]
    /\ got = Idle
    /\ cpc = [c \in Calls |-> "ready"]
    /\ req = [c \in Calls |-> Request("GET", 1, FALSE)]
    /\ cancelled = [c \in Calls |-> FALSE]
    /\ faults = {}
    /\ store = <<>>
    /\ now = 0

SpecRetryConc == InitRetryConc /\ [][NextRetry]_vars

\* ------------------------------------------------------------ cache alone
\* CacheHandler(option) with the default functions, called as TestCacheHandler
\* calls it: one caller sends the same request again and again while time
\* passes; the storage is the memory or the file backend, empty at first.
InitCache ==
    /\ config \in {[NoClient EXCEPT !.cacher = k, !.ttl = d, !.outcomes = {"ok200", "ok500", "fail"}] :
                      k \in {"memory", "file"}, d \in {1, 2}}
    /\ handlers = <<"cache">>
    /\ option = [MaxRetry |-> 0, pred |-> "default"]
    /\ heap = <<ZeroBackOff>>
    /\ stack = Idle
    /\ closures = Idle
    /\ trace = Idle
    /\ ret = [c \in Calls |-> NoResult]
    /\ got = Idle
    /\ cpc = [c \in Calls |-> IF c = 1 THEN "ready" ELSE "unused"]
    /\ req \in [Calls -> {Request(m, u, FALSE) : m \in {"GET", "POST"}, u \in Urls}]
    /\ req[2] = req[1]
    /\ cancelled = [c \in Calls |-> FALSE]
    /\ faults \in {{}, {"get", "set", "read"}, {"get", "corrupt"}}
    /\ store = [k \in Keys |-> NoItem]
    /\ now = 0

NextCache ==
    \/ \E c \in Calls :
          \/ Start(c)
          \/ CacheEnter(c) \/ CacheStore(c)
          \/ Again(c)
    \/ Tick
    \/ Corrupt

SpecCache == InitCache /\ [][NextCache]_vars

\* ------------------------------------------------------------ concurrent cache
\* Two callers at once through one CacheHandler over the memory storage,
\* each sending the same GET again while time passes; downstream answers
\* 200 with a body of its own each time.
InitCacheConc ==
    /\ config \in {[NoClient EXCEPT !.cacher = "memory", !.ttl = d, !.outcomes = {"ok200"}] :
                      d \in {1, 2}}
    /\ handlers = <<"cache">>
    /\ option = [MaxRetry |-> 0, pred |-> "default"]
    /\ heap = <<ZeroBackOff>>
    /\ stack = Idle
    /\ closures = Idle
    /\ trace = Idle
    /\ ret = [c \in Calls |-> NoResult]
    /\ got = Idle
    /\ cpc = [c \in Calls |-> "ready"]
    /\ req = [c \in Calls |-> Request("GET", 1, FALSE)]
    /\ cancelled = [c \in Calls |-> FALSE]
    /\ faults = {}
    /\ store = [k \in Keys |-> NoItem]
    /\ now = 0

\* the caller sends its request once more
CacheAgain(c) ==
    /\ cpc[c] = "done"
    /\ Count(trace[c], <<"in", 1>>) < MaxLookups
    /\ cpc' = [cpc EXCEPT ![c] = "ready"]
    /\ UNCHANGED <<config, handlers, option, heap, stack, closures, trace, ret, got, req,
                   cancelled, faults, store, now>>

NextCacheConc ==
    \/ \E c \in Calls :
          \/ Start(c)
          \/ CacheEnter(c) \/ CacheStore(c)
          \/ CacheAgain(c)
    \/ Tick

SpecCacheConc == InitCacheConc /\ [][NextCacheConc]_vars

\* ------------------------------------------------------------ the codec alone
\* Encode and then Decode, as TestRequestEntryEncoderDecoder calls them, on
\* every transaction of a request with a URL (with or without headers and
\* body, an empty method meaning GET), a response or none (status codes
\* below, at and above 0) and an error or none.
CodecHeaders ==
    {NoHeader,
     [key \in {"Accept"} |-> <<"a">>],
     [key \in {"Accept"} |-> <<"a", "b">>],
     [key \in {"Accept", "X-Test"} |-> IF key = "Accept" THEN <<"b", "a">> ELSE <<"OK">>]}

CodecRequests ==
    {[Request(m, 1, hb) EXCEPT !.header = h, !.body = IF hb THEN b ELSE 0] :
        m \in {"GET", "POST", ""}, hb \in BOOLEAN, b \in {0, 1}, h \in CodecHeaders}

CodecResponses ==
    {NilResp} \cup
    {[Response(code, b, 1) EXCEPT !.header = h] :
        code \in {-1, 0, 200, 404}, b \in {0, 1}, h \in CodecHeaders}

CodecErrors ==
    {NilErr, ErrValue(DownstreamError), Wrap(ErrValue(DownstreamError), <<"Get">>)}

\* where the encoded bytes are kept
CodecKey == <<"sha1", 1>>

InitCodec ==
    /\ config = NoClient
    /\ handlers = <<>>
    /\ option = [MaxRetry |-> 0, pred |-> "default"]
    /\ heap = <<ZeroBackOff>>
    /\ stack = Idle
    /\ closures = Idle
    /\ trace = Idle
    /\ \E resp \in CodecResponses, err \in CodecErrors :
          ret = [c \in Calls |-> [resp |-> resp, err |-> err]]
    /\ got = Idle
    /\ cpc = [c \in Calls |-> IF c = 1 THEN "entry" ELSE "unused"]
    /\ \E rq \in CodecRequests : req = [c \in Calls |-> rq]
    /\ cancelled = [c \in Calls |-> FALSE]
    /\ faults \in {{}, {"read"}}
    /\ store = [k \in Keys |-> NoItem]
    /\ now = 0

\* m.Encode(e) on the entry (req[c], ret[c]): the bytes are kept, got[c]
\* records the response as Encode left it and the error it returned
CodecEncode(c) ==
    /\ cpc[c] = "entry"
    /\ \E enc \in Encode(req[c], ret[c].resp, ret[c].err, faults) :
          /\ got' = [got EXCEPT ![c] = <<[resp |-> enc.resp, err |-> enc.err]>>]
          /\ store' = IF enc.err = NilErr
                      THEN [store EXCEPT ![CodecKey] =
                               [set |-> TRUE, value |-> enc.value, exp |-> 0, forever |-> TRUE]]
                      ELSE store
          /\ cpc' = [cpc EXCEPT ![c] = IF enc.err = NilErr THEN "encoded" ELSE "failed"]
    /\ UNCHANGED <<config, handlers, option, heap, stack, closures, trace, ret, req,
                   cancelled, faults, now>>

\* m.Decode(value) on the kept bytes: got[c] records the decoded entry
CodecDecode(c) ==
    /\ cpc[c] = "encoded"
    /\ DecodeErr(store[CodecKey].value) = NilErr
    /\ got' = [got EXCEPT ![c] =
                 Append(@, [request |-> Decode(store[CodecKey].value).Request,
                            resp |-> Decode(store[CodecKey].value).Response,
                            err |-> Decode(store[CodecKey].value).Error])]
    /\ cpc' = [cpc EXCEPT ![c] = "decoded"]
    /\ UNCHANGED <<config, handlers, option, heap, stack, closures, trace, ret, req,
                   cancelled, faults, store, now>>

NextCodec == \E c \in Calls : CodecEncode(c) \/ CodecDecode(c)

SpecCodec == InitCodec /\ [][NextCodec]_vars

\* ------------------------------------------------------------ the codec on any input
\* Encode of any entry and Decode of any bytes, as the tests
\* TestRequestEntryEncoderDecoder_EncodeWithInvalidInput and
\* _DecodeWithInvalidInput call them: call 1 encodes its entry, call 2
\* decodes the bytes that are kept.
InvalidRequests ==
    {NilRequest, Request("", 0, FALSE)} \cup
    {[Request("GET", 1, hb) EXCEPT !.body = IF hb THEN b ELSE 0] :
        hb \in BOOLEAN, b \in {1, BadReader}}

InvalidResponses ==
    {NilResp} \cup {Response(200, b, 1) : b \in {0, 1, BadReader}}

KeptBytes ==
    {NoEntry, Malformed,
     [NoEntry EXCEPT !.recorded = TRUE, !.Method = BadMethod],
     [NoEntry EXCEPT !.recorded = TRUE, !.Method = "GET", !.URL = BadURL],
     [NoEntry EXCEPT !.recorded = TRUE, !.Method = "GET", !.URL = 1],
     [NoEntry EXCEPT !.recorded = TRUE, !.URL = 1, !.StatusCode = 200]}

InitCodecErrors ==
    /\ config = NoClient
    /\ handlers = <<>>
    /\ option = [MaxRetry |-> 0, pred |-> "default"]
    /\ heap = <<ZeroBackOff>>
    /\ stack = Idle
    /\ closures = Idle
    /\ trace = Idle
    /\ \E resp \in InvalidResponses, err \in {NilErr, ErrValue(DownstreamError)} :
          ret = [c \in Calls |-> [resp |-> resp, err |-> err]]
    /\ got = Idle
    /\ cpc = [c \in Calls |-> IF c = 1 THEN "entry" ELSE "stored"]
    /\ \E rq \in InvalidRequests : req = [c \in Calls |-> rq]
    /\ cancelled = [c \in Calls |-> FALSE]
    /\ faults = {}
    /\ \E bytes \in KeptBytes :
          store = [k \in Keys |-> [set |-> TRUE, value |-> bytes, exp |-> 0, forever |-> TRUE]]
    /\ now = 0

\* value, err := m.Encode(e): got[c] records them
EncodeAny(c) ==
    /\ cpc[c] = "entry"
    /\ got' = [got EXCEPT ![c] = <<EncodeEntry(req[c], ret[c].resp, ret[c].err)>>]
    /\ cpc' = [cpc EXCEPT ![c] = "encoded"]
    /\ UNCHANGED <<config, handlers, option, heap, stack, closures, trace, ret, req,
                   cancelled, faults, store, now>>

\* re, err := m.Decode(value): got[c] records them
DecodeAny(c) ==
    /\ cpc[c] = "stored"
    /\ got' = [got EXCEPT ![c] = <<DecodeEntry(store[CodecKey].value)>>]
    /\ cpc' = [cpc EXCEPT ![c] = "decoded"]
    /\ UNCHANGED <<config, handlers, option, heap, stack, closures, trace, ret, req,
                   cancelled, faults, store, now>>

NextCodecErrors == \E c \in Calls : EncodeAny(c) \/ DecodeAny(c)

SpecCodecErrors == InitCodecErrors /\ [][NextCodecErrors]_vars

\* ------------------------------------------------------------ logger and cache
\* The interceptors that read bodies, alone and one around the other: one
\* caller sends its GET again and again; the entry, once stored, does not
\* expire.
InitBody ==
    /\ config = [NoClient EXCEPT !.outcomes = {"ok200", "ok500", "fail"}]
    /\ handlers \in {<<"logger">>, <<"cache">>, <<"logger", "cache">>, <<"cache", "logger">>}
    /\ option = [MaxRetry |-> 0, pred |-> "default"]
    /\ heap = <<ZeroBackOff>>
    /\ stack = Idle
    /\ closures = Idle
    /\ trace = Idle
    /\ ret = [c \in Calls |-> NoResult]
    /\ got = Idle
    /\ cpc = [c \in Calls |-> IF c = 1 THEN "ready" ELSE "unused"]
    /\ \E hb \in BOOLEAN : req = [c \in Calls |-> Request("GET", 1, hb)]
    /\ cancelled = [c \in Calls |-> FALSE]
    /\ faults \in {{}, {"read"}}
    /\ store = [k \in Keys |-> NoItem]
    /\ now = 0

NextBody ==
    \E c \in Calls :
        \/ Start(c)
        \/ LoggerCall(c) \/ LoggerReturn(c)
        \/ CacheEnter(c) \/ CacheStore(c)
        \/ Again(c)

SpecBody == InitBody /\ [][NextBody]_vars

\* ------------------------------------------------------------ clients that retry
\* NewClient(WithMaxRetry(n), WithRetryBackOff(b)), with or without
\* WithShouldRetryFunc(defaultShouldRetryFunc) and WithLoggerOption, sending
\* one request to a transport whose every answer is a status of 500 or an
\* error.
RetryClientOptions ==
    {WithMaxRetry(o, n) :
        o \in {ZeroRetryOption, WithShouldRetryFunc(ZeroRetryOption, "default")},
        n \in 0..MaxRetryBound}

InitClient ==
    /\ option \in RetryClientOptions
    /\ heap \in {<<ZeroBackOff>>, <<ConstantBackOff(1)>>}
    /\ \E lg \in BOOLEAN :
          config = [NoClient EXCEPT !.client = TRUE, !.o = [NoOptions EXCEPT !.logger = lg],
                                    !.outcomes = {"ok500", "fail"}]
    /\ handlers = NewClient(config.o, option, heap[1])
    /\ stack = Idle
    /\ closures = Idle
    /\ trace = Idle
    /\ ret = [c \in Calls |-> NoResult]
    /\ got = Idle
    /\ cpc = [c \in Calls |-> IF c = 1 THEN "ready" ELSE "unused"]
    /\ req = [c \in Calls |-> Request("GET", 1, FALSE)]
    /\ cancelled = [c \in Calls |-> FALSE]
    /\ faults = {}
    /\ store = <<>>
    /\ now = 0

NextClient ==
    \E c \in Calls :
        \/ Start(c)
        \/ NoOpCall(c) \/ NoOpReturn(c)
        \/ RetryEnter(c) \/ RetryAttempt(c) \/ RetryDecide(c)
        \/ TimerFire(c)
        \/ LoggerCall(c) \/ LoggerReturn(c)

SpecClient == InitClient /\ [][NextClient]_vars

\* ------------------------------------------------------------ the default predicate
\* defaultShouldRetryFunc(req, resp, err) called once on every request,
\* response (none, or a status below, at or above 500) and error (none, a
\* plain one, a wrapped one); trace[c] records its answer.
PredicateResponses ==
    {NilResp} \cup {Response(code, 0, 1) : code \in {0, 200, 404, 499, 500, 501, 503}}

InitPredicate ==
    /\ config = NoClient
    /\ handlers = <<>>
    /\ option = WithShouldRetryFunc(ZeroRetryOption, "default")
    /\ heap = <<ZeroBackOff>>
    /\ stack = Idle
    /\ closures = Idle
    /\ trace = Idle
    /\ \E resp \in PredicateResponses, err \in CodecErrors :
          ret = [c \in Calls |-> [resp |-> resp, err |-> err]]
    /\ got = Idle
    /\ cpc = [c \in Calls |-> IF c = 1 THEN "entry" ELSE "unused"]
    /\ \E m \in {"GET", "POST"}, hb \in BOOLEAN : req = [c \in Calls |-> Request(m, 1, hb)]
    /\ cancelled = [c \in Calls |-> FALSE]
    /\ faults = {}
    /\ store = <<>>
    /\ now = 0

PredicateCall(c) ==
    /\ cpc[c] = "entry"
    /\ \E should \in ShouldRetryFunc(option.pred, req[c], ret[c].resp, ret[c].err) :
          trace' = [trace EXCEPT ![c] = << <<"pred", IF should THEN 1 ELSE 0>> >>]
    /\ cpc' = [cpc EXCEPT ![c] = "answered"]
    /\ UNCHANGED <<config, handlers, option, heap, stack, closures, ret, got, req,
                   cancelled, faults, store, now>>

NextPredicate == \E c \in Calls : PredicateCall(c)

SpecPredicate == InitPredicate /\ [][NextPredicate]_vars

\* ------------------------------------------------------------ the storage backends
\* A Cacher used as TestFileCache and TestRedisCache use it: one caller
\* performs Set and Get operations on two keys, one after another, while
\* time passes and no file or connection fails.  got[c] records each
\* operation and what it returned.
StorageKeys == {<<"sha1", u>> : u \in {1, 2}}

\* the bytes given to Set
StorageValues == {[NoEntry EXCEPT !.recorded = TRUE, !.Method = m] : m \in {"GET", "POST"}}

StorageTTLs == {0, 1}

InitStorage ==
    /\ config \in {[NoClient EXCEPT !.cacher = k] : k \in {"memory", "file", "redis"}}
    /\ handlers = <<>>
    /\ option = ZeroRetryOption
    /\ heap = <<NilBackOff>>
    /\ stack = Idle
    /\ closures = Idle
    /\ trace = Idle
    /\ ret = [c \in Calls |-> NoResult]
    /\ got = Idle
    /\ cpc = [c \in Calls |-> IF c = 1 THEN "ready" ELSE "unused"]
    /\ req = [c \in Calls |-> Request("GET", 1, FALSE)]
    /\ cancelled = [c \in Calls |-> FALSE]
    /\ faults = {}
    /\ store = [k \in StorageKeys |-> NoItem]
    /\ now = 0

\* c.Set(key, value, ttl)
StorageSet(c) ==
    /\ cpc[c] = "ready"
    /\ Len(got[c]) < MaxOps
    /\ \E k \in StorageKeys, v \in StorageValues, ttl \in StorageTTLs :
       \E r \in CacherSet(config.cacher, store, k, v, ttl, now, faults) :
          /\ store' = r.store
          /\ got' = [got EXCEPT ![c] =
                       Append(@, [op |-> "Set", key |-> k, value |-> v, ttl |-> ttl,
                                  t |-> now, err |-> r.err])]
    /\ UNCHANGED <<config, handlers, option, heap, stack, closures, trace, ret, cpc, req,
                   cancelled, faults, now>>

\* value, err := c.Get(key)
StorageGet(c) ==
    /\ cpc[c] = "ready"
    /\ Len(got[c]) < MaxOps
    /\ \E k \in StorageKeys :
       \E r \in CacherGet(config.cacher, store, k, now, faults) :
          /\ store' = r.store
          /\ got' = [got EXCEPT ![c] =
                       Append(@, [op |-> "Get", key |-> k, value |-> r.value, ttl |-> 0,
                                  t |-> now, err |-> r.err])]
    /\ UNCHANGED <<config, handlers, option, heap, stack, closures, trace, ret, cpc, req,
                   cancelled, faults, now>>

NextStorage ==
    \/ \E c \in Calls : StorageSet(c) \/ StorageGet(c)
    \/ Tick

SpecStorage == InitStorage /\ [][NextStorage]_vars

\* ------------------------------------------------------------ the file backend
\* NewFileCache(dir) used as TestFileCache uses it: Set and Get by one
\* caller, one after another, while time passes and no file operation fails
InitFileStorage ==
    /\ config = [NoClient EXCEPT !.cacher = "file"]
    /\ handlers = <<>>
    /\ option = ZeroRetryOption
    /\ heap = <<NilBackOff>>
    /\ stack = Idle
    /\ closures = Idle
    /\ trace = Idle
    /\ ret = [c \in Calls |-> NoResult]
    /\ got = Idle
    /\ cpc = [c \in Calls |-> IF c = 1 THEN "ready" ELSE "unused"]
    /\ req = [c \in Calls |-> Request("GET", 1, FALSE)]
    /\ cancelled = [c \in Calls |-> FALSE]
    /\ faults = {}
    /\ store = [k \in StorageKeys |-> NoItem]
    /\ now = 0

SpecFileStorage == InitFileStorage /\ [][NextStorage]_vars

\* ------------------------------------------------------------ FileCache.Get, step by step
\* Two callers call FileCache.Get on the key of an entry that was Set at time
\* 0, again and again while time passes, and no Set follows.  Each call
\* is the sequence of file operations of cacher.go:73-105: os.Stat,
\* os.ReadFile, the expiry test against TimeNowFunc(), os.Remove.  The only
\* failures are those of a file that another call has removed meanwhile.
FileKey == <<"sha1", 1>>

ReadFileError == "Error reading file contents"
RemoveError == "Error deleting an expired file"

\* the calls that have found the entry expired so far
Finders == LET RECURSIVE sum(_)
               sum(S) == IF S = {} THEN 0
                         ELSE LET c == CHOOSE x \in S : TRUE
                              IN CountTag(trace[c], "expired") + sum(S \ {c})
           IN sum(Calls)

InitFileGet ==
    /\ config = [NoClient EXCEPT !.cacher = "file"]
    /\ handlers = <<>>
    /\ option = ZeroRetryOption
    /\ heap = <<NilBackOff>>
    /\ stack = Idle
    /\ closures = Idle
    /\ trace = Idle
    /\ ret = [c \in Calls |-> NoResult]
    /\ got = Idle
    /\ cpc = [c \in Calls |-> "ready"]
    /\ req = [c \in Calls |-> Request("GET", 1, FALSE)]
    /\ cancelled = [c \in Calls |-> FALSE]
    /\ faults = {}
    /\ \E v \in StorageValues, ttl \in StorageTTLs :
       \E r \in CacherSet("file", [k \in {FileKey} |-> NoItem], FileKey, v, ttl, 0, {}) :
          store = r.store
    /\ now = 0

\* Get returns (value, err): got[c] records it, with the rank nth of the call
\* among those that found the entry expired (0: it did not) and late, which
\* says that the call began after another had found the entry expired
FileGetReturn(c, value, err, nth) ==
    /\ got' = [got EXCEPT ![c] =
                 Append(@, [value |-> value, err |-> err, nth |-> nth,
                            late |-> stack[c] # <<>> /\ stack[c][1].late])]
    /\ stack' = [stack EXCEPT ![c] = <<>>]
    /\ cpc' = [cpc EXCEPT ![c] = "ready"]

\* _, err := os.Stat(path) (cacher.go:75-80)
FileGetStat(c) ==
    /\ cpc[c] = "ready"
    /\ Len(got[c]) < MaxOps
    /\ IF store[FileKey].set
       THEN /\ stack' = [stack EXCEPT ![c] = <<[item |-> NoItem, late |-> Finders > 0, nth |-> 0]>>]
            /\ cpc' = [cpc EXCEPT ![c] = "stat"]
            /\ got' = got
       ELSE /\ got' = [got EXCEPT ![c] =
                         Append(@, [value |-> NoEntry, err |-> ErrValue(ErrCacheKeyNotFound),
                                    nth |-> 0, late |-> Finders > 0])]
            /\ UNCHANGED <<stack, cpc>>
    /\ UNCHANGED <<config, handlers, option, heap, closures, trace, ret, req, cancelled,
                   faults, store, now>>

\* data, err := os.ReadFile(path) and msgpack.Unmarshal (cacher.go:81-90)
FileGetRead(c) ==
    /\ cpc[c] = "stat"
    /\ IF store[FileKey].set
       THEN /\ stack' = [stack EXCEPT ![c][1].item = store[FileKey]]
            /\ cpc' = [cpc EXCEPT ![c] = "read"]
            /\ got' = got
       ELSE FileGetReturn(c, NoEntry, Wrap(ErrValue("file does not exist"), <<ReadFileError>>), 0)
    /\ UNCHANGED <<config, handlers, option, heap, closures, trace, ret, req, cancelled,
                   faults, store, now>>

\* if ttl.Sub(c.TimeNowFunc()) >= 0 { return e.Value, nil } (cacher.go:92-96)
FileGetCheck(c) ==
    /\ cpc[c] = "read"
    /\ IF now <= stack[c][1].item.exp
       THEN /\ FileGetReturn(c, stack[c][1].item.value, NilErr, 0)
            /\ trace' = trace
       ELSE /\ stack' = [stack EXCEPT ![c][1].nth = Finders + 1]
            /\ trace' = [trace EXCEPT ![c] = Append(@, <<"expired", Finders + 1>>)]
            /\ cpc' = [cpc EXCEPT ![c] = "expired"]
            /\ got' = got
    /\ UNCHANGED <<config, handlers, option, heap, closures, ret, req, cancelled,
                   faults, store, now>>

\* err = os.Remove(path) and the return that follows (cacher.go:98-104)
FileGetRemove(c) ==
    /\ cpc[c] = "expired"
    /\ IF store[FileKey].set
       THEN /\ store' = [store EXCEPT ![FileKey] = NoItem]
            /\ FileGetReturn(c, NoEntry, ErrValue(ErrCacheKeyNotFound), stack[c][1].nth)
       ELSE /\ store' = store
            /\ FileGetReturn(c, NoEntry, Wrap(ErrValue("file does not exist"), <<RemoveError>>),
                             stack[c][1].nth)
    /\ UNCHANGED <<config, handlers, option, heap, closures, trace, ret, req, cancelled,
                   faults, now>>

NextFileGet ==
    \/ \E c \in Calls : FileGetStat(c) \/ FileGetRead(c) \/ FileGetCheck(c) \/ FileGetRemove(c)
    \/ Tick

SpecFileGet == InitFileGet /\ [][NextFileGet]_vars

\* ------------------------------------------------------------ circuit breaker alone
\* HystrixHandler(option) called as TestHystrixHandler calls it: one caller
\* sends request after request to one host while time passes; downstream
\* answers or fails.  The circuit is closed at first.
InitHystrix ==
    /\ config = [NoClient EXCEPT !.outcomes = {"ok200", "fail", "both"}]
    /\ handlers = <<"hystrix">>
    /\ option = ZeroRetryOption
    /\ heap = <<NilBackOff>>
    /\ stack = Idle
    /\ closures = Idle
    /\ trace = Idle
    /\ ret = [c \in Calls |-> NoResult]
    /\ got = Idle
    /\ cpc = [c \in Calls |-> IF c = 1 THEN "ready" ELSE "unused"]
    /\ req = [c \in Calls |-> Request("GET", 1, FALSE)]
    /\ cancelled = [c \in Calls |-> FALSE]
    /\ faults = {}
    /\ store = ClosedCircuit
    /\ now = 0

NextHystrix ==
    \/ \E c \in Calls : Start(c) \/ HystrixExecute(c) \/ HystrixReturn(c) \/ Again(c)
    \/ Tick

SpecHystrix == InitHystrix /\ [][NextHystrix]_vars

\* ------------------------------------------------------------ body size alone
\* BodySizeHandler(NewBodySizeOption(max)) called as TestBodySizeHandler
\* calls it, by two callers: downstream answers with a response that
\* declares a Content-Length (a size below, at or above max, or a text that
\* does not parse), with a response that declares none, or with an error.
InitBodySize ==
    /\ \E max \in 1..2 :
          config = [NoClient EXCEPT !.o = [NoOptions EXCEPT !.maxBodySize = max],
                                    !.outcomes = DOMAIN ContentLengths \cup {"ok200", "fail", "both"}]
    /\ handlers = <<"bodysize">>
    /\ option = ZeroRetryOption
    /\ heap = <<NilBackOff>>
    /\ stack = Idle
    /\ closures = Idle
    /\ trace = Idle
    /\ ret = [c \in Calls |-> NoResult]
    /\ got = Idle
    /\ cpc = [c \in Calls |-> "ready"]
    /\ req = [c \in Calls |-> Request("GET", 1, FALSE)]
    /\ cancelled = [c \in Calls |-> FALSE]
    /\ faults = {}
    /\ store = <<>>
    /\ now = 0

NextBodySize ==
    \E c \in Calls : Start(c) \/ BodySizeCall(c) \/ BodySizeReturn(c)

SpecBodySize == InitBodySize /\ [][NextBodySize]_vars

\* ------------------------------------------------------------ rate limit alone
\* RateLimitHandler(NewRateLimitOption(rate)) called as
\* TestRateLimitHandler_TwoURL calls it, by two callers at once: each sends
\* its request again and again while time passes; the first caller sends
\* GET https://example.com/a and its context may be cancelled, the second
\* sends any of the requests below.  The registry is empty at first and
\* downstream answers 200.
RateLimitURLs ==
    {URL("https", "", "example.com", "/a", "", FALSE, ""),
     URL("HTTPS", "", "Example.com", "/A", "", FALSE, ""),
     URL("https", "username", "example.com", "/a", "a=b", FALSE, "pointer"),
     URL("https", "", "example.com", "/a", "", TRUE, ""),
     URL("https", "", "example.com", "/b", "", FALSE, "")}

RateLimitRequests ==
    {Request("GET", u, FALSE) : u \in RateLimitURLs}
    \cup {Request("POST", URL("https", "", "example.com", "/a", "", FALSE, ""), FALSE)}

RateLimitKeys == {RateLimitKey(rq) : rq \in RateLimitRequests}

InitRateLimit ==
    /\ config = [NoClient EXCEPT !.outcomes = {"ok200"}]
    /\ handlers = <<"ratelimit">>
    /\ option = ZeroRetryOption
    /\ heap = <<>>
    /\ stack = Idle
    /\ closures = Idle
    /\ trace = Idle
    /\ ret = [c \in Calls |-> NoResult]
    /\ got = Idle
    /\ cpc = [c \in Calls |-> "ready"]
    /\ req \in [Calls -> RateLimitRequests]
    /\ req[1] = Request("GET", URL("https", "", "example.com", "/a", "", FALSE, ""), FALSE)
    /\ cancelled = [c \in Calls |-> FALSE]
    /\ faults = {}
    /\ store = [k \in RateLimitKeys |-> 0]
    /\ now = 0

\* the caller sends its request once more
RateLimitAgain(c) ==
    /\ cpc[c] = "done"
    /\ CountTag(trace[c], "take") < MaxTakes
    /\ cpc' = [cpc EXCEPT ![c] = "ready"]
    /\ UNCHANGED <<config, handlers, option, heap, stack, closures, trace, ret, got, req,
                   cancelled, faults, store, now>>

NextRateLimit ==
    \/ \E c \in Calls :
          \/ Start(c)
          \/ RateLimitConstruct(c) \/ RateLimitLoadOrStore(c) \/ RateLimitTake(c)
          \/ RateLimitCall(c) \/ RateLimitReturn(c)
          \/ RateLimitAgain(c)
    \/ Cancel(1)
    \/ Tick

SpecRateLimit == InitRateLimit /\ [][NextRateLimit]_vars

\* ------------------------------------------------------------ each interceptor alone
\* One of the interceptors that NewClient installs besides retry, alone
\* over a downstream that answers, fails, or fails with a response; body
\* reads and storage operations may fail.  One caller sends one request.
Interceptors == {"logger", "ratelimit", "hystrix", "trace", "cache", "bodysize"}

InitPropagate ==
    /\ config = [NoClient EXCEPT !.o = [NoOptions EXCEPT !.maxBodySize = 1],
                                 !.outcomes = {"ok200", "fail", "both", "len1", "len2"}]
    /\ \E kind \in Interceptors :
          /\ handlers = <<kind>>
          /\ store = CASE kind = "cache" -> [k \in Keys |-> NoItem]
                       [] kind = "hystrix" -> ClosedCircuit
                       [] kind = "ratelimit" -> [k \in RateLimitKeys |-> 0]
                       [] OTHER -> <<>>
          /\ \E hb \in BOOLEAN :
                req = [c \in Calls |->
                         IF kind = "ratelimit"
                         THEN [Request("GET", URL("https", "", "example.com", "/a", "", FALSE, ""), FALSE)
                                 EXCEPT !.hasBody = hb, !.body = IF hb THEN 1 ELSE 0]
                         ELSE Request("GET", 1, hb)]
    /\ option = ZeroRetryOption
    /\ heap = <<>>
    /\ stack = Idle
    /\ closures = Idle
    /\ trace = Idle
    /\ ret = [c \in Calls |-> NoResult]
    /\ got = Idle
    /\ cpc = [c \in Calls |-> IF c = 1 THEN "ready" ELSE "unused"]
    /\ cancelled = [c \in Calls |-> FALSE]
    /\ faults \in {{}, {"read"}, {"get", "set"}}
    /\ now = 0

NextPropagate ==
    \E c \in Calls :
        \/ Start(c)
        \/ LoggerCall(c) \/ LoggerReturn(c)
        \/ RateLimitConstruct(c) \/ RateLimitLoadOrStore(c) \/ RateLimitTake(c)
        \/ RateLimitCall(c) \/ RateLimitReturn(c)
        \/ HystrixExecute(c) \/ HystrixReturn(c)
        \/ TraceCall(c) \/ TraceReturn(c)
        \/ CacheEnter(c) \/ CacheStore(c)
        \/ BodySizeCall(c) \/ BodySizeReturn(c)

SpecPropagate == InitPropagate /\ [][NextPropagate]_vars

\* ============================================================ the chain's claims
IsPrefix(s, t) == Len(s) <= Len(t) /\ SubSeq(t, 1, Len(s)) = s

Entered(c, h) == Count(trace[c], <<"in", h>>)

\* h1..hN entered in order, then T; the returns in the reverse order
NestedOrder(n) ==
    [i \in 1..(2 * n + 2) |->
        IF i <= n THEN <<"in", i>>
        ELSE IF i = n + 1 THEN <<"in", 0>>
        ELSE IF i = n + 2 THEN <<"out", 0>>
        ELSE <<"out", 2 * n + 3 - i>>]

AllPass == \A i \in 1..Len(handlers) : handlers[i] = "pass"

\* C1: a list of N >= 0 interceptors that each call their next once is
\* entered in the configured order h1, ..., hN, then T, and returns in the
\* reverse order T, hN, ..., h1: at every moment the call has done a prefix
\* of that sequence, and all of it when it is done.
C1_ChainOrder ==
    \A c \in Calls :
        AllPass =>
            /\ IsPrefix(trace[c], NestedOrder(Len(handlers)))
            /\ cpc[c] = "done" => trace[c] = NestedOrder(Len(handlers))

C1_Witness ==
    /\ cpc[1] = "done"
    /\ handlers = <<"pass", "pass", "pass">>
    /\ trace[1] = NestedOrder(3)

\* C2: once interceptor hi has returned without calling its next, no
\* interceptor after it and not the terminal call has been entered, and the
\* finished call's result is what hi returned.
C2_ShortCircuit ==
    \A c \in Calls : \A i \in 1..Len(handlers) :
        (handlers[i] = "short" /\ Entered(c, i) > 0) =>
            /\ \A j \in (i + 1)..Len(handlers) : Entered(c, j) = 0
            /\ Entered(c, 0) = 0
            /\ cpc[c] = "done" => ret[c] = ShortResult(i)

C2_Witness ==
    /\ cpc[1] = "done"
    /\ handlers = <<"pass", "short", "pass">>
    /\ Entered(1, 1) = 1 /\ Entered(1, 2) = 1
    /\ ret[1] = ShortResult(2)

\* the attempts the retry interceptor at position i has started
Attempts(c, i) == Count(trace[c], <<"try", i>>)

\* position j (the terminal call: Len(handlers) + 1) is reached from the
\* retry interceptor at i: nothing in between short-circuits
ReachedFrom(i, j) == \A k \in (i + 1)..(j - 1) : handlers[k] # "short"

EnteredAt(c, j) == Entered(c, IF j = Len(handlers) + 1 THEN 0 ELSE j)

LogRecords(c) == CountTag(trace[c], "log") + CountTag(trace[c], "warn")

\* C3: with the retry interceptor at position i, entered and having made m
\* attempts, every interceptor before i has been entered exactly once and
\* every interceptor after i that is reached, and the terminal call, once
\* per attempt (exactly m times when the call is done).  A client built by
\* NewClient with logger and retry writes one log record per Do, whatever
\* the number of attempts: the request's record, or the warning that takes
\* its place when the entry cannot be built.
C3_RetryInward ==
    \A c \in Calls :
        /\ \A i \in 1..Len(handlers) :
             (handlers[i] = "retry" /\ Entered(c, i) > 0) =>
                /\ \A j \in 1..(i - 1) : Entered(c, j) = 1
                /\ \A j \in (i + 1)..(Len(handlers) + 1) :
                     /\ ReachedFrom(i, j) => EnteredAt(c, j) <= Attempts(c, i)
                     /\ ReachedFrom(i, j) => EnteredAt(c, j) >= Attempts(c, i) - 1
                     /\ (ReachedFrom(i, j) /\ cpc[c] = "done") =>
                            EnteredAt(c, j) = Attempts(c, i)
                     /\ ~ReachedFrom(i, j) => EnteredAt(c, j) = 0
        /\ (config.client /\ config.o.logger /\ RetryIsEnabled(option, heap[1])) =>
                /\ LogRecords(c) <= 1
                /\ cpc[c] = "done" =>
                     /\ LogRecords(c) = 1
                     /\ "read" \notin faults => CountTag(trace[c], "log") = 1

C3_Witness ==
    /\ cpc[1] = "done"
    /\ config.client /\ config.o.logger
    /\ handlers = <<"logger", "retry">>
    /\ Attempts(1, 2) = 3
    /\ Entered(1, 0) = 3
    /\ CountTag(trace[1], "log") = 1

\* ============================================================ the retry claims
\* the position of the retry interceptor in handlers
RetryAt == CHOOSE i \in 1..Len(handlers) : handlers[i] = "retry"

\* the events of s whose tag is in tags, in order
RECURSIVE Only(_, _)
Only(s, tags) ==
    IF s = <<>> THEN <<>>
    ELSE IF Head(s)[1] \in tags THEN <<Head(s)>> \o Only(Tail(s), tags)
    ELSE Only(Tail(s), tags)

Tags(s) == [i \in 1..Len(s) |-> s[i][1]]

\* a, b, a, b, ... of length n
Alternate(a, b, n) == [i \in 1..n |-> IF i % 2 = 1 THEN a ELSE b]

Waits(c) == CountTag(trace[c], "wait")

\* the configured policy never answers backoff.Stop
NeverStops(b) == b.kind \in {"constant", "zero"} \/ (b.kind = "exponential" /\ ~b.limit)

\* what the interceptor makes of an attempt's (resp, err) when the loop ends
\* with it: a response that comes with an error is closed and dropped
Handed(r) == [resp |-> IF r.err # NilErr THEN NilResp ELSE r.resp, err |-> r.err]

AlwaysRetried(c) ==
    /\ option.MaxRetry >= 1
    /\ option.pred = "always"
    /\ NeverStops(heap[1])
    /\ ~cancelled[c]
    /\ cpc[c] = "done"

\* C4 as claimed: with MaxRetry = k >= 1, an always-retry predicate, a policy
\* that never stops and no cancellation, a call makes k + 1 attempts with k
\* waits in between and returns the result of attempt k + 1.
C4_Original ==
    \A c \in Calls :
        AlwaysRetried(c) =>
            /\ Tags(Only(trace[c], {"try", "wait"})) =
                   Alternate("try", "wait", 2 * option.MaxRetry + 1)
            /\ Len(got[c]) = option.MaxRetry + 1
            /\ ret[c] = got[c][option.MaxRetry + 1]

\* C4 (amended): with MaxRetry = k >= 1, an always-retry predicate, a policy
\* that never stops and no cancellation, a call makes k + 1 attempts with k
\* waits in between and returns the error of attempt k + 1 with its
\* response, except that a response that comes with an error has been
\* closed and nil is returned in its place.
C4_RetryExhausted ==
    \A c \in Calls :
        AlwaysRetried(c) =>
            /\ Tags(Only(trace[c], {"try", "wait"})) =
                   Alternate("try", "wait", 2 * option.MaxRetry + 1)
            /\ Len(got[c]) = option.MaxRetry + 1
            /\ ret[c] = Handed(got[c][option.MaxRetry + 1])
            /\ ret[c] # got[c][option.MaxRetry + 1] =>
                   /\ got[c][option.MaxRetry + 1].err # NilErr
                   /\ Count(trace[c], <<"close", got[c][option.MaxRetry + 1].resp.obj>>) = 1

C4_Witness ==
    /\ AlwaysRetried(1)
    /\ option.MaxRetry = 2
    /\ Waits(1) = 2
    /\ Len(got[1]) = 3
    /\ ~got[1][3].resp.nil /\ got[1][3].err # NilErr
    /\ ret[1].resp = NilResp

\* the predicate has answered no
SaidNo(c) == Count(trace[c], <<"pred", 0>>) > 0

\* C5 as claimed (for the loop, MaxRetry >= 1): the predicate is consulted
\* once after each attempt; when it first answers no, after attempt j, the
\* loop stops with j attempts and j - 1 waits, and the result of attempt j is
\* returned.
C5_Original ==
    \A c \in Calls :
        (option.MaxRetry >= 1 /\ cpc[c] # "panic") =>
            /\ IsPrefix(Tags(Only(trace[c], {"try", "pred"})),
                        Alternate("try", "pred", 2 * option.MaxRetry + 2))
            /\ SaidNo(c) =>
                 /\ Count(trace[c], <<"pred", 0>>) = 1
                 /\ Only(trace[c], {"try", "pred", "wait", "stop"})
                        [Len(Only(trace[c], {"try", "pred", "wait", "stop"}))] = <<"pred", 0>>
                 /\ Len(got[c]) <= option.MaxRetry + 1
                 /\ Len(got[c]) = Count(trace[c], <<"try", RetryAt>>)
                 /\ Waits(c) = Len(got[c]) - 1
                 /\ cpc[c] = "done"
                 /\ ret[c] = got[c][Len(got[c])]

\* C5 (amended): in the retry loop (MaxRetry >= 1) the predicate is consulted
\* once after each attempt; when it first answers no, after attempt j <= k+1,
\* the loop stops without a further wait or attempt, with j attempts and
\* j - 1 waits, and the call returns the error of attempt j with its
\* response, except that a response that comes with an error is closed and
\* nil is returned in its place.
C5_PredicateStops ==
    \A c \in Calls :
        (option.MaxRetry >= 1 /\ cpc[c] # "panic") =>
            /\ IsPrefix(Tags(Only(trace[c], {"try", "pred"})),
                        Alternate("try", "pred", 2 * option.MaxRetry + 2))
            /\ SaidNo(c) =>
                 /\ Count(trace[c], <<"pred", 0>>) = 1
                 /\ Only(trace[c], {"try", "pred", "wait", "stop"})
                        [Len(Only(trace[c], {"try", "pred", "wait", "stop"}))] = <<"pred", 0>>
                 /\ Len(got[c]) <= option.MaxRetry + 1
                 /\ Len(got[c]) = Count(trace[c], <<"try", RetryAt>>)
                 /\ Waits(c) = Len(got[c]) - 1
                 /\ cpc[c] = "done"
                 /\ ret[c] = Handed(got[c][Len(got[c])])

C5_Witness ==
    /\ option.MaxRetry = 2
    /\ SaidNo(1)
    /\ Len(got[1]) = 2
    /\ Waits(1) = 1
    /\ cpc[1] = "done"
    /\ ~got[1][2].resp.nil /\ got[1][2].err # NilErr
    /\ ret[1] = [resp |-> NilResp, err |-> got[1][2].err]

\* sleepContext's select took <-ctx.Done(): at once ("ctx") or after the call
\* had blocked in it ("woken")
CtxTaken(c) == {i \in 1..Len(trace[c]) : trace[c][i][1] \in {"ctx", "woken"}}

Blocked(c) == cpc[c] = "running" /\ Top(c).kind = "retry" /\ Top(c).pc = "blocked"

\* C6: when the request's context is cancelled while the retry interceptor
\* waits, the wait is over (no call waits with its context done), no further
\* attempt is made, and the call has returned a nil response with an error
\* that is context.Canceled (errors.Is) wrapped in the text of the last
\* attempt's error.
C6_CancelMidWait ==
    \A c \in Calls :
        /\ cancelled[c] => ~Blocked(c)
        /\ \A i \in CtxTaken(c) :
             /\ \A j \in (i + 1)..Len(trace[c]) : trace[c][j][1] # "try"
             /\ cpc[c] = "done"
             /\ ret[c].resp = NilResp
             /\ ErrorsIs(ret[c].err, ContextCanceled)
             /\ ret[c].err = Wrap(ErrValue(ContextCanceled), ErrText(got[c][Len(got[c])].err))

C6_Witness ==
    /\ CountTag(trace[1], "woken") = 1
    /\ Len(got[1]) = 1
    /\ got[1][1].err # NilErr
    /\ cpc[1] = "done"
    /\ ret[1].resp = NilResp
    /\ ErrorsIs(ret[1].err, ContextCanceled)
    /\ ret[1].err[1].v = <<DownstreamError>>

\* C7 as claimed: cancellation is always fatal to the retry loop.  Once the
\* request's context has been cancelled, a sleepContext entered afterwards
\* (its select finds <-ctx.Done() ready) ends the loop whatever the policy
\* and the wait, a zero wait included: no attempt follows it.
C7_CancelAlwaysFatal ==
    \A c \in Calls :
        \A i \in Positions(trace[c], <<"cancel", 0>>) :
            \A j \in (i + 1)..Len(trace[c]) :
                trace[c][j][1] = "wait" =>
                    \A k \in (j + 1)..Len(trace[c]) : trace[c][k][1] # "try"

\* the first n waits of policy b, freshly reset
RECURSIVE Intervals(_, _)
Intervals(b, n) ==
    IF n = 0 THEN <<>>
    ELSE LET nx == CHOOSE x \in NextBackOff(b) : x.d # Stop
         IN <<nx.d>> \o Intervals(nx.b, n - 1)

\* the waits call c has started, in order
WaitsOf(c) == [i \in 1..Waits(c) |-> Filter(trace[c], "wait")[i][2]]

\* C8 as claimed: with concurrent calls through one RetryHandler, each call
\* counts its own retries and draws its waits from its own clone: at most
\* k + 1 attempts, and exactly k + 1 under an always-retry predicate.
C8_Original ==
    \A c \in Calls :
        /\ Len(got[c]) <= option.MaxRetry + 1
        /\ WaitsOf(c) = Intervals(Reset(heap[1]), Waits(c))
        /\ (cpc[c] = "done" /\ option.pred = "always") =>
               Len(got[c]) = option.MaxRetry + 1

\* C8 (amended): with concurrent calls through one RetryHandler, each call
\* counts its own retries and draws its waits from its own clone: its waits
\* are those of a freshly reset policy, it makes at most k + 1 attempts, and
\* exactly k + 1 under an always-retry predicate when the policy never
\* answers Stop and the call's context is not cancelled.
C8_OwnClone ==
    \A c \in Calls :
        /\ Len(got[c]) <= option.MaxRetry + 1
        /\ WaitsOf(c) = Intervals(Reset(heap[1]), Waits(c))
        /\ (cpc[c] = "done" /\ option.pred = "always"
              /\ NeverStops(heap[1]) /\ ~cancelled[c]) =>
               Len(got[c]) = option.MaxRetry + 1

C8_Witness ==
    /\ option.MaxRetry = 2
    /\ option.pred = "always"
    /\ heap[1] = ExponentialBackOff(4, FALSE)
    /\ \A c \in Calls : cpc[c] = "done" /\ Len(got[c]) = 3 /\ WaitsOf(c) = <<1, 2>>
    /\ trace[1][Len(trace[1])] = <<"out", 1>>
    /\ Positions(trace[1], <<"wait", 1>>) # {} /\ ErrorsIs(got[1][3].err, DownstreamError)

\* ============================================================ the cache claims
\* the storage lookups of caller c: positions in trace[c]
Lookups(c) == {i \in 1..Len(trace[c]) : trace[c][i][1] \in {"hit", "miss"}}

SetsBefore(c, i) == {j \in 1..(i - 1) : trace[c][j][1] = "set"}

Max(S) == CHOOSE x \in S : \A y \in S : y <= x

\* at lookup i an entry had been stored and had not expired: the lookup's
\* time is at most the last Set's time plus the ttl
StoredFresh(c, i) ==
    /\ SetsBefore(c, i) # {}
    /\ trace[c][i][2] <= trace[c][Max(SetsBefore(c, i))][2] + config.ttl

MissesUpTo(c, i) == Cardinality({j \in 1..i : trace[c][j][1] = "miss"})

\* status 200 with nil error
Is200(r) == ~r.resp.nil /\ r.resp.code = 200 /\ r.err = NilErr

LastGot(c) == got[c][Len(got[c])]

\* the transaction of the last downstream invocation as Decode gives it back
Recorded(c) ==
    LET e == CHOOSE x \in Encode(req[c], LastGot(c).resp, LastGot(c).err, {}) : TRUE
    IN [resp |-> Decode(e.value).Response, err |-> Decode(e.value).Error]

\* what every GET does, as claimed and as amended: a lookup hits exactly
\* when an entry was stored and has not expired; a hit returns at once, the
\* recorded response with nil error; downstream has been invoked once per
\* miss and never else
HitsWithinTTL(c) ==
    /\ \A i \in Lookups(c) :
         /\ trace[c][i][1] = "hit" <=> StoredFresh(c, i)
         /\ trace[c][i][1] = "hit" => trace[c][i + 1] = <<"out", 1>>
         /\ trace[c][i][1] = "miss" => trace[c][i + 1] = <<"in", 0>>
    /\ Len(got[c]) = CountTag(trace[c], "miss")
    /\ (cpc[c] = "done" /\ trace[c][Len(trace[c]) - 1][1] = "hit") =>
         /\ ret[c] = Recorded(c)
         /\ Is200(ret[c])
         /\ ret[c].resp.body = LastGot(c).resp.body

C10_NonGetNeverCached ==
    \A c \in Calls :
        (req[c].method # "GET" /\ cpc[c] # "unused") =>
            /\ \A i \in 1..Len(trace[c]) :
                 trace[c][i][1] \notin {"hit", "miss", "set", "setfail", "encfail"}
            /\ store = [k \in Keys |-> NoItem]
            /\ Count(trace[c], <<"in", 0>>) = Count(trace[c], <<"in", 1>>)
            /\ Len(got[c]) = Count(trace[c], <<"in", 1>>)
            /\ cpc[c] = "done" =>
                 /\ Count(trace[c], <<"out", 1>>) = Len(got[c])
                 /\ ret[c] = LastGot(c)

C10_Witness ==
    /\ req[1].method = "POST"
    /\ cpc[1] = "done"
    /\ Len(got[1]) = 3
    /\ Is200(got[1][1]) /\ ~Is200(got[1][2]) /\ Is200(got[1][3])
    /\ ret[1] = got[1][3]
    /\ "set" \in faults

\* caller c takes the step of CacheHandler that follows the downstream call
StoreStep(c) == OnTop(c, "cache", "post") /\ stack'[c] # stack[c]

\* the event before the closing <<"out", h>> of the step just taken
LastEvent(c) == trace'[c][Len(trace'[c]) - 1]

\* the entry Set writes for the result r at the present time
Written(c, r) ==
    [set |-> TRUE,
     value |-> (CHOOSE x \in Encode(req[c], r.resp, r.err, {}) : TRUE).value,
     exp |-> now + config.ttl,
     forever |-> FALSE]

Fallthroughs(c) == {i \in 1..Len(trace[c]) : trace[c][i][1] \in {"miss", "undecodable"}}

\* the errors of the lookup
LookupErrors == {ErrCacheKeyNotFound, StorageError, DecodeError}

\* the last lookup of caller c
LastLookup(c) == Max(Lookups(c) \cup Fallthroughs(c))

\* the last request of caller c ended with a failed Encode
EncodeFailed(c) == trace[c][Len(trace[c]) - 1] = <<"encfail", 0>>

C13_SetFailureIgnored ==
    [][\A c \in Calls :
          (StoreStep(c) /\ LastEvent(c)[1] = "setfail") =>
              /\ req[c].method = "GET" /\ Is200(ret[c])
              /\ ret'[c] = ret[c]
              /\ ret'[c] = LastGot(c)
              /\ ret'[c].err = NilErr
              /\ cpc'[c] = "done"]_vars

C13_Witness ==
    /\ cpc[1] = "done"
    /\ config.cacher = "file"
    /\ trace[1][Len(trace[1]) - 1][1] = "setfail"
    /\ ret[1] = got[1][1]
    /\ Is200(ret[1])
    /\ store[<<"sha1", 1>>] = NoItem

\* C14: if encoding the transaction fails for a result the predicate found
\* cacheable, the interceptor returns a nil response and a non-nil error
\* that wraps the encoder's error under the message "Serialization
\* request", and the storage is left as it is.
C14_EncodeFailureReturned ==
    [][\A c \in Calls :
          (StoreStep(c) /\ LastEvent(c)[1] = "encfail") =>
              /\ req[c].method = "GET" /\ Is200(ret[c])
              /\ ret'[c].resp = NilResp
              /\ ret'[c].err # NilErr
              /\ ErrorsIs(ret'[c].err, ReadError)
              /\ Head(ret'[c].err) = [k |-> "msg", v |-> <<"Serialization request">>]
              /\ store' = store
              /\ cpc'[c] = "done"]_vars

C14_Witness ==
    /\ cpc[1] = "done"
    /\ EncodeFailed(1)
    /\ Is200(got[1][1])
    /\ Len(got[1]) = 1
    /\ ret[1] = [resp |-> NilResp,
                 err |-> << [k |-> "msg", v |-> <<"Serialization request">>],
                            [k |-> "err", v |-> <<ReadError>>] >>]
    /\ store[<<"sha1", 1>>] = NoItem

\* ============================================================ the codec claims
\* the entry Decode(Encode(t)) of caller c
Decoded(c) == got[c][2]

\* the header as pairs of a name and its one value
Pairs(header) == {<<key, HeaderGet(header, key)>> : key \in DOMAIN header}

\* C15 as claimed: for every transaction t with a request that has a URL,
\* Decode(Encode(t)) succeeds and its request has the method, the URL, the
\* header key/value pairs and the body bytes of t's request.
C15_RequestRoundTrip ==
    \A c \in Calls :
        /\ cpc[c] = "encoded" => DecodeErr(store[CodecKey].value) = NilErr
        /\ cpc[c] = "decoded" =>
             /\ Decoded(c).request.method = req[c].method
             /\ Decoded(c).request.url = req[c].url
             /\ Pairs(Decoded(c).request.header) = Pairs(req[c].header)
             /\ Decoded(c).request.body = req[c].body

\* C16: for every transaction t that encodes, Decode(Encode(t)) keeps the
\* status code, the header key/value pairs (the first value of each name,
\* as its only value) and the body bytes of a response with a positive
\* status code; and its error is non-nil iff t's is, with the same text.
C16_ResponseRoundTrip ==
    \A c \in Calls :
        cpc[c] = "decoded" =>
            /\ (~ret[c].resp.nil /\ ret[c].resp.code > 0) =>
                  /\ ~Decoded(c).resp.nil
                  /\ Decoded(c).resp.code = ret[c].resp.code
                  /\ Pairs(Decoded(c).resp.header) = Pairs(ret[c].resp.header)
                  /\ \A key \in DOMAIN Decoded(c).resp.header :
                        Len(Decoded(c).resp.header[key]) = 1
                  /\ Decoded(c).resp.body = ret[c].resp.body
            /\ Decoded(c).err # NilErr <=> ret[c].err # NilErr
            /\ ret[c].err # NilErr => ErrText(Decoded(c).err) = ErrText(ret[c].err)

C16_Witness ==
    /\ cpc[1] = "decoded"
    /\ ret[1].resp.code = 404
    /\ ret[1].resp.header = [key \in {"Accept", "X-Test"} |->
                                IF key = "Accept" THEN <<"b", "a">> ELSE <<"OK">>]
    /\ Decoded(1).resp.header = [key \in {"Accept", "X-Test"} |->
                                    IF key = "Accept" THEN <<"b">> ELSE <<"OK">>]
    /\ ret[1].resp.body = 1 /\ Decoded(1).resp.body = 1
    /\ Len(ret[1].err) = 2
    /\ ErrText(Decoded(1).err) = <<"Get", DownstreamError>>

\* C17: Decode makes a response iff the recorded status code is above 0: an
\* entry encoded from a transaction without response, or with a response of
\* status code 0 or less, decodes to the nil response.
C17_ResponseIffStatusCode ==
    \A c \in Calls :
        cpc[c] = "decoded" =>
            /\ ~Decoded(c).resp.nil <=> store[CodecKey].value.StatusCode > 0
            /\ (ret[c].resp.nil \/ ret[c].resp.code <= 0) => Decoded(c).resp = NilResp
            /\ (~ret[c].resp.nil /\ ret[c].resp.code > 0) => ~Decoded(c).resp.nil
            /\ ~Decoded(c).resp.nil => Decoded(c).resp.code > 0

C17_Witness ==
    /\ cpc[1] = "decoded"
    /\ ~ret[1].resp.nil
    /\ ret[1].resp.code = 0
    /\ ret[1].resp.body = 1
    /\ store[CodecKey].value.ResponseBody = 1
    /\ Decoded(1).resp = NilResp

\* ============================================================ the claim on bodies
\* no read of a body by the logger or the codec has failed for caller c
NoFailedRead(c) == CountTag(trace[c], "warn") = 0 /\ CountTag(trace[c], "encfail") = 0

C19_DefaultPredicateRetries ==
    \A c \in Calls :
        (/\ cpc[c] = "done"
         /\ option.pred = "nil"
         /\ option.MaxRetry >= 1)
        => DownCount(c) = option.MaxRetry + 1

\* ------------------------------------------------------------ C20
\* C20: the default retry predicate answers false exactly when the error is
\* nil and there is a response whose status is below 500, and true on every
\* other (request, response, error).
C20_DefaultPredicate ==
    \A c \in Calls :
        cpc[c] = "answered" =>
            LET resp == ret[c].resp
                err == ret[c].err
            IN trace[c] = << <<"pred", 0>> >>
               <=> (err = NilErr /\ ~resp.nil /\ resp.code < 500)

\* the predicate has refused a retry on a status of 499 without error
C20_Witness ==
    /\ cpc[1] = "answered"
    /\ ret[1].err = NilErr
    /\ ret[1].resp.code = 499
    /\ trace[1] = << <<"pred", 0>> >>

\* ------------------------------------------------------------ C21
\* the intervals policy b may give next
FirstIntervals(b) == {n.d : n \in NextBackOff(b)}

\* the first interval call c drew from its policy: the wait, or Stop, that
\* follows the predicate's first yes
FirstDrawn(c) ==
    LET i == CHOOSE j \in Positions(trace[c], <<"pred", 1>>) :
                 \A k \in Positions(trace[c], <<"pred", 1>>) : j <= k
        ev == trace[c][i + 1]
    IN IF ev[1] = "wait" THEN ev[2] ELSE Stop

\* C21: each top-level call to the retry interceptor starts from a fresh
\* clone.  For the exponential, constant, stop and zero-wait policies, and
\* however far the configured policy has been advanced, the clone the call
\* is about to use gives the first interval of the configured policy freshly
\* reset, and the first interval the call draws is that one.
C21_FreshClone ==
    \A c \in Calls :
        /\ (OnTop(c, "retry", "attempt") /\ Top(c).tries = 0) =>
               FirstIntervals(heap[Top(c).b]) = FirstIntervals(Reset(heap[1]))
        /\ Positions(trace[c], <<"pred", 1>>) # {} =>
               FirstDrawn(c) \in FirstIntervals(Reset(heap[1]))

\* a call on an exponential policy advanced to its largest interval has
\* waited the initial interval first
C21_Witness ==
    /\ heap[1] = ExponentialBackOff(4, TRUE)
    /\ cpc[1] = "done"
    /\ Len(got[1]) = 2
    /\ FirstDrawn(1) = 1

\* ------------------------------------------------------------ C22
\* the configured policy is none of exponential, constant, stop, zero-wait
UnknownPolicy == heap[1].kind \notin BackOffKinds

\* C22: cloning a policy of an unrecognized variant fails loudly.  With
\* MaxRetry >= 1 and such a policy, a call to the retry interceptor panics
\* before any downstream invocation: it makes no attempt, draws no interval
\* and never returns, and once entered it has panicked.
C22_UnknownPolicyPanics ==
    \A c \in Calls :
        (option.MaxRetry >= 1 /\ UnknownPolicy) =>
            /\ DownCount(c) = 0
            /\ CountTag(trace[c], "try") = 0
            /\ CountTag(trace[c], "wait") = 0
            /\ cpc[c] # "done"
            /\ Entered(c, 1) > 0 =>
                  (cpc[c] = "panic" /\ Count(trace[c], <<"panic", 1>>) = 1)

C22_Witness ==
    /\ option.MaxRetry >= 1
    /\ UnknownPolicy
    /\ cpc[1] = "panic"
    /\ got[1] = <<>>

\* ------------------------------------------------------------ C23
\* what call c does in a step of the composed handler of no interceptor:
\* it starts as noOpRequestHandler, hands the request on as it is, and when
\* it has returned, T was invoked once and its (response, error) is the
\* result
IdentityStep(c) ==
    /\ cpc[c] = "ready" /\ cpc'[c] = "running" => stack'[c] = <<NewFrame(0, 0)>>
    /\ req'[c] = req[c]
    /\ cpc'[c] = "done" =>
          /\ Len(got'[c]) = 1
          /\ ret'[c] = got'[c][1]
          /\ trace'[c] = << <<"in", 0>>, <<"out", 0>> >>

\* what call c does in a step of the composed handler of one interceptor:
\* it starts as that interceptor called with the terminal handlerFunc, and
\* no closure of the composer runs
DirectStep(c) ==
    /\ cpc[c] = "ready" /\ cpc'[c] = "running" => stack'[c] = <<NewFrame(1, 0)>>
    /\ closures'[c] = <<>>
    /\ Len(stack'[c]) <= 1

\* the client is NewClient(): no retry field was set either
NoOptionsGiven ==
    config = NewClientNoOptions /\ option = ZeroRetryOption /\ heap[1] = NilBackOff

\* C23: with zero interceptors the composed handler is the terminal call (T
\* invoked exactly once with the same request, T's response and error
\* returned); with one interceptor it is that interceptor; NewClient with no
\* options composes zero interceptors, so its Do is one transport Do whose
\* result is returned unchanged.
C23_ZeroAndOne ==
    [][\A c \in Calls :
          /\ NoOptionsGiven => handlers = <<>>
          /\ Len(handlers) = 0 => IdentityStep(c)
          /\ Len(handlers) = 1 => DirectStep(c)]_vars

\* Do on a client without options has returned the response and the error
\* the transport gave together
C23_Witness ==
    /\ NoOptionsGiven
    /\ cpc[1] = "done"
    /\ Len(got[1]) = 1
    /\ ret[1] = got[1][1]
    /\ ~ret[1].resp.nil /\ ret[1].err # NilErr

\* ------------------------------------------------------------ C24
\* the Sets of key k that caller c performed before its i-th operation
SetsOf(c, k, i) == {j \in 1..(i - 1) : got[c][j].op = "Set" /\ got[c][j].key = k}

\* Get returned no value and ErrCacheKeyNotFound
NotFound(o) == o.value = NoEntry /\ o.err = ErrValue(ErrCacheKeyNotFound)

C25_LazyExpiry ==
    \A c \in Calls :
        \A i \in 1..Len(got[c]) :
            (got[c][i].nth = 1 \/ got[c][i].late) => NotFound(got[c][i])

\* ------------------------------------------------------------ C26
\* the key the registry is said to derive: the method and the lower-cased
\* scheme, host and path, without query, fragment and credentials
DerivedKey(rq) ==
    <<rq.method, ToLower(rq.url.scheme), ToLower(rq.url.host), ToLower(rq.url.path)>>

\* the limiters call c has taken a permit from
TakenFrom(c) == {trace[c][i][2] : i \in {j \in 1..Len(trace[c]) : trace[c][j][1] = "take"}}

\* C26 as claimed: the registry holds exactly one limiter per derived key,
\* created on first use and never replaced.  In any interleaving of
\* concurrent requests, requests with the same derived key take their permit
\* from the same limiter, and requests whose keys differ (in method or path)
\* take theirs from different limiters.
C26_OneLimiterPerKey ==
    \A c1, c2 \in Calls :
        \A l1 \in TakenFrom(c1), l2 \in TakenFrom(c2) :
            (DerivedKey(req[c1]) = DerivedKey(req[c2])) <=> (l1 = l2)

\* ------------------------------------------------------------ C27
\* the length the response declares, when it declares one
Declared(resp) == ParseUint(HeaderGet(resp.header, "Content-Length"))

Refused(c) == Len(trace[c]) >= 2 /\ trace[c][Len(trace[c]) - 1] = <<"open", 0>>

\* C28: when the circuit is open the circuit-breaker interceptor does not
\* invoke downstream and returns a nil response with the breaker's
\* circuit-open error as it is; when the breaker admits the call and
\* downstream fails, the error returned is downstream's error.
C28_BreakerErrors ==
    \A c \in Calls :
        /\ DownCount(c) <= Entered(c, 1) - CountTag(trace[c], "open")
        /\ cpc[c] = "done" =>
              IF Refused(c)
              THEN ret[c] = [resp |-> NilResp, err |-> ErrValue(CircuitOpen)]
              ELSE LastGot(c).err # NilErr => ret[c].err = LastGot(c).err

\* after two failures that were returned as downstream gave them, the third
\* request was refused without a downstream call
C28_Witness ==
    /\ cpc[1] = "done"
    /\ Refused(1)
    /\ Entered(1, 1) = 3
    /\ DownCount(1) = 2
    /\ ret[1].err = ErrValue(CircuitOpen)

\* ------------------------------------------------------------ C29
\* C29: a request whose cancellation fires while it is blocked waiting for a
\* rate-limiter permit stops waiting and returns a cancellation error
\* without invoking downstream, as the retry wait does.
C29_TakeObservesCancel ==
    \A c \in Calls :
        \A i \in 1..Len(trace[c]) :
            trace[c][i] = <<"cancel", 1>> =>
                /\ i < Len(trace[c]) => trace[c][i + 1][1] # "permit"
                /\ cpc[c] = "done" /\ Entered(c, 1) = 1 =>
                      ErrorsIs(ret[c].err, ContextCanceled)

\* ------------------------------------------------------------ C30
\* the entry that Encode recorded for call c
EncodedEntry(c) == store[CodecKey].value

\* C30: Encode records one value per header name, and when a header name
\* carried several values the recorded value is the last one written.
C30_LastValueRecorded ==
    \A c \in Calls :
        cpc[c] \in {"encoded", "decoded"} =>
            /\ DOMAIN EncodedEntry(c).RequestHeader = DOMAIN req[c].header
            /\ \A key \in DOMAIN req[c].header :
                  EncodedEntry(c).RequestHeader[key] = HeaderGetLast(req[c].header, key)
            /\ ~ret[c].resp.nil =>
                  /\ DOMAIN EncodedEntry(c).ResponseHeader = DOMAIN ret[c].resp.header
                  /\ \A key \in DOMAIN ret[c].resp.header :
                        EncodedEntry(c).ResponseHeader[key] = HeaderGetLast(ret[c].resp.header, key)

\* ------------------------------------------------------------ C31
\* C31: Encode fails, returning nil bytes and a non-nil error, when the
\* transaction has no request, when the request has no URL, or when reading
\* the request or response body fails; Decode fails, returning a non-nil
\* error and an entry with nil request, on malformed bytes or on a recorded
\* method/URL from which no request can be built.
C31_CodecFailures ==
    \A c \in Calls :
        /\ cpc[c] = "encoded" =>
              LET noRequest == req[c] = NilRequest
                  noURL == ~noRequest /\ req[c].url = 0
                  badRead == /\ ~noRequest
                             /\ \/ req[c].hasBody /\ req[c].body = BadReader
                                \/ ~ret[c].resp.nil /\ ret[c].resp.body = BadReader
              IN (noRequest \/ noURL \/ badRead) =>
                    got[c][1].err # NilErr /\ got[c][1].nilBytes
        /\ cpc[c] = "decoded" =>
              LET bytes == store[CodecKey].value
              IN (~bytes.recorded \/ bytes.Method = BadMethod \/ bytes.URL = BadURL) =>
                    got[c][1].err # NilErr /\ got[c][1].Request = NilRequest

\* a request without URL was refused and bytes with the method "()" were
\* not decoded
C31_Witness ==
    /\ cpc[1] = "encoded"
    /\ req[1] = Request("", 0, FALSE)
    /\ got[1][1].err = ErrValue(URLNotFound)
    /\ cpc[2] = "decoded"
    /\ store[CodecKey].value.Method = BadMethod
    /\ got[2][1].err = ErrValue(InvalidMethod)

\* ------------------------------------------------------------ C32
\* error e is error d or wraps it
IsOrWraps(e, d) ==
    Len(e) >= Len(d) /\ SubSeq(e, Len(e) - Len(d) + 1, Len(e)) = d

\* the one request of call c went downstream and failed there
DownstreamFailed(c) == cpc[c] = "done" /\ Len(got[c]) = 1 /\ got[c][1].err # NilErr

\* the failure of downstream is returned, as it is or wrapped
C32_FailurePropagates ==
    \A c \in Calls :
        DownstreamFailed(c) => ret[c].err # NilErr /\ IsOrWraps(ret[c].err, got[c][1].err)

\* C32: no interceptor turns a downstream failure into a success: for the
\* logger, rate-limit, circuit-breaker, trace, cache (on a miss) and
\* body-size interceptors, a non-nil error of downstream is returned as it
\* is or wrapped; and the only errors never surfaced are those of the cache
\* lookup, of the decoding of the cached bytes and of the storage write.
C32_NoSwallowedError ==
    /\ C32_FailurePropagates
    /\ \A c \in Calls :
          cpc[c] = "done" /\ CountTag(trace[c], "warn") > 0 => ret[c].err # NilErr

\* ------------------------------------------------------------ C33
\* call c makes at least one and at most MaxRetry + 1 downstream invocations
\* and returns; with MaxRetry = 0 it makes one, asks neither the predicate
\* nor the policy, and returns downstream's result as it is
BoundedAttempts(c) ==
    /\ cpc[c] # "panic"
    /\ DownCount(c) <= option.MaxRetry + 1
    /\ cpc[c] = "done" => DownCount(c) >= 1
    /\ option.MaxRetry = 0 =>
          /\ CountTag(trace[c], "pred") = 0
          /\ CountTag(trace[c], "wait") = 0
          /\ CountTag(trace[c], "stop") = 0
          /\ heap = <<heap[1]>>
          /\ cpc[c] = "done" => DownCount(c) = 1 /\ ret[c] = got[c][1]

AttemptAt(c, i) == Cardinality({j \in 1..i : trace[c][j][1] = "try"})

\* the response of attempt n was closed before event i
ClosedBefore(c, n, i) ==
    \E j \in 1..(i - 1) :
        /\ trace[c][j] = <<"close", got[c][n].resp.obj>>
        /\ AttemptAt(c, j) = n

\* C34: in each iteration of the retry loop, when the attempt yields a
\* non-nil response together with a failure, the response body is closed
\* and the response discarded before the retry predicate is asked, so the
\* predicate and the wait never run while that response is still open.
C34_ClosedBeforePredicate ==
    \A c \in Calls :
        option.MaxRetry >= 1 =>
            \A i \in 1..Len(trace[c]) :
                trace[c][i][1] \in {"pred", "wait"} =>
                    LET n == AttemptAt(c, i)
                    IN (~got[c][n].resp.nil /\ got[c][n].err # NilErr) =>
                           ClosedBefore(c, n, i)

\* ------------------------------------------------------------ C35
\* the position of the n-th attempt of call c in its trace
TryAt(c, n) == CHOOSE i \in 1..Len(trace[c]) : trace[c][i][1] = "try" /\ AttemptAt(c, i) = n

\* C35: the retry interceptor leaks no response: every response of an
\* attempt that is followed by another attempt (a response with nil error
\* and a status of 500 or more, retried under the default predicate,
\* included) is closed before the next attempt starts, and the only
\* response left open when the call returns is the one handed to the caller.
C35_NoLeak ==
    \A c \in Calls :
        option.MaxRetry >= 1 =>
            \A n \in 1..Len(got[c]) :
                ~got[c][n].resp.nil =>
                    /\ n < Len(got[c]) => ClosedBefore(c, n, TryAt(c, n + 1))
                    /\ (cpc[c] = "done" /\ Count(trace[c], <<"close", got[c][n].resp.obj>>) = 0) =>
                          (~ret[c].resp.nil /\ ret[c].resp.obj = got[c][n].resp.obj)

\* ------------------------------------------------------------ C36
\* C36: the retry interceptor never calls Reset or NextBackOff on the
\* configured RetryOption.RetryBackOff: whatever the calls do, one after
\* the other or at once, no step changes the configured policy's state.
C36_ConfiguredUntouched == [][heap'[1] = heap[1]]_vars

\* two calls have drawn the waits 1 and 2 from their clones, and the
\* configured exponential policy, which was advanced to 2 before, is still
\* at 2 while the clones have gone from 1 to 4
C36_Witness ==
    /\ option.MaxRetry = 2
    /\ heap[1] = ExponentialBackOff(2, FALSE)
    /\ Len(heap) = 3
    /\ heap[2].cur = 4 /\ heap[3].cur = 4
    /\ \A c \in Calls : cpc[c] = "done" /\ WaitsOf(c) = <<1, 2>>

\* ------------------------------------------------------------ C37
\* the first request of caller c missed, went downstream, was stored and
\* returned: in, miss, the downstream call, set, out
FirstStored(c) ==
    /\ Len(trace[c]) >= 6
    /\ trace[c][2][1] = "miss"
    /\ trace[c][5][1] = "set"
    /\ trace[c][6] = <<"out", 1>>

\* the time of the first Set of caller c
FirstSetTime(c) == trace[c][5][2]

\* both callers missed with their first request, called downstream, stored
\* the answer and returned
BothStored == \A c \in Calls : FirstStored(c)

\* what the first transaction of caller c is recorded as
EntryOf(c) == (CHOOSE enc \in Encode(req[c], got[c][1].resp, got[c][1].err, {}) : TRUE).value

\* C37: when two identical cacheable GETs run concurrently through one
\* cache interceptor over the memory storage and both miss, each invokes
\* downstream once, and once both have completed every lookup of that key
\* within the TTL hits an entry that decodes to one of the two completed
\* transactions, whole, without invoking downstream again.
C37_ConcurrentEntries ==
    [][\A c \in Calls :
          (/\ BothStored
           /\ OnTop(c, "cache", "pre")
           /\ \A d \in Calls : now <= FirstSetTime(d) + config.ttl
           /\ stack'[c] # stack[c]) =>
              /\ \A d \in Calls : Len(got[d]) = 1
              /\ got' = got
              /\ trace'[c] = trace[c] \o << <<"in", 1>>, <<"hit", now>>, <<"out", 1>> >>
              /\ store[DefaultRequestHashFunc(req[c])].value \in {EntryOf(d) : d \in Calls}
              /\ \E d \in Calls :
                    ret'[c] = [resp |-> Decode(EntryOf(d)).Response, err |-> NilErr]]_vars

\* both callers missed and stored, and a later lookup of the first caller
\* was answered with the second caller's transaction
C37_Witness ==
    /\ BothStored
    /\ cpc[1] = "done"
    /\ CountTag(trace[1], "hit") = 1
    /\ Len(got[1]) = 1 /\ Len(got[2]) = 1
    /\ ret[1].resp.body = got[2][1].resp.body
    /\ got[1][1].resp.body # got[2][1].resp.body

\* ------------------------------------------------------------ C38
\* C38: on the file backend an entry written by Set(k, v, ttl) at time t is
\* returned by Get at time now if and only if now <= t + ttl, the expiry
\* instant itself included; an entry set with ttl = 0 is not found at
\* every instant later than t.
C38_FileExpiry ==
    \A c \in Calls :
        config.cacher = "file" =>
            \A i \in 1..Len(got[c]) :
                (got[c][i].op = "Get" /\ SetsOf(c, got[c][i].key, i) # {}) =>
                    LET o == got[c][i]
                        last == got[c][Max(SetsOf(c, o.key, i))]
                    IN /\ (o.err = NilErr /\ o.value = last.value) <=> o.t <= last.t + last.ttl
                       /\ o.t > last.t + last.ttl => NotFound(o)
                       /\ (last.ttl = 0 /\ o.t > last.t) => NotFound(o)

\* an entry set with ttl 1 was returned at its expiry instant and was not
\* found one instant later
C38_Witness ==
    /\ config.cacher = "file"
    /\ Len(got[1]) = 3
    /\ got[1][1].op = "Set" /\ got[1][1].ttl = 1
    /\ got[1][2].op = "Get" /\ got[1][2].key = got[1][1].key
    /\ got[1][2].t = got[1][1].t + 1
    /\ got[1][2].err = NilErr /\ got[1][2].value = got[1][1].value
    /\ got[1][3].op = "Get" /\ got[1][3].key = got[1][1].key
    /\ got[1][3].t = got[1][1].t + 2
    /\ NotFound(got[1][3])

\* ------------------------------------------------------------ C39
\* C39: the response that Decode rebuilds carries the status line that
\* Encode captured: for every transaction with a response of positive
\* status code, the decoded Status is the original Status and the decoded
\* Proto the original Proto.
C39_StatusLine ==
    \A c \in Calls :
        (cpc[c] = "decoded" /\ ~ret[c].resp.nil /\ ret[c].resp.code > 0) =>
            /\ ~Decoded(c).resp.nil
            /\ Decoded(c).resp.status = ret[c].resp.status
            /\ Decoded(c).resp.proto = ret[c].resp.proto

\* ------------------------------------------------------------ C40
\* the texts among the Content-Length values that are unsigned decimal integers
UnsignedDecimals == {"0", "1", "2", "3", "18446744073709551616"}

ParseMessage == "Parse the data size of the response content"

\* C40: when downstream returns a response with nil error whose
\* Content-Length header is absent or is not an unsigned decimal integer,
\* the body-size interceptor returns a nil response and a non-nil error
\* that wraps the parse failure, with a message that starts "Parse the data
\* size of the response content", and that is not the size-violation error.
C40_ParseFailure ==
    \A c \in Calls :
        (/\ cpc[c] = "done"
         /\ got[c][1].err = NilErr
         /\ ~got[c][1].resp.nil
         /\ HeaderGet(got[c][1].resp.header, "Content-Length") \notin UnsignedDecimals)
        => /\ ret[c].resp = NilResp
           /\ ret[c].err # NilErr
           /\ ret[c].err = Wrap(ErrValue(ParseError), <<ParseMessage>>)
           /\ Head(ErrText(ret[c].err)) = ParseMessage
           /\ ret[c].err # ErrValue(TooLarge)

\* a response without the header and a response whose header is a text
\* have both been refused with the parse error
C40_Witness ==
    /\ cpc[1] = "done" /\ cpc[2] = "done"
    /\ got[1][1].err = NilErr /\ got[2][1].err = NilErr
    /\ "Content-Length" \notin DOMAIN got[1][1].resp.header
    /\ HeaderGet(got[2][1].resp.header, "Content-Length") = "abc"
    /\ ret[1].resp = NilResp /\ ret[2].resp = NilResp
    /\ ret[1].err = Wrap(ErrValue(ParseError), <<ParseMessage>>)
    /\ ret[2].err = ret[1].err

====
